---------------------------- MODULE Spec2Model ----------------------------
(***************************************************************************)
(* Model of slurm_plugin/cluster_event_publisher.py and of the suspend     *)
(* entry point slurm_plugin/suspend.py.                                    *)
(*                                                                         *)
(* Python strings that the code scans character by character (the slurm    *)
(* node spec) are sequences of one-character strings.  Strings that the    *)
(* code only compares or copies (levels, event types, error codes, node    *)
(* names of the publisher scenarios) are TLA+ strings.                     *)
(***************************************************************************)
EXTENDS Integers, Sequences, FiniteSets, TLC

VARIABLES
    LAUNCH_FAILURE_GROUPING,  \* the module-level table error code -> failure type
    clock,             \* the wall clock timestamp() reads
    pc,                \* "idle", or "done" once a publish_* call has ended
    method,            \* the publish_* method called last
    args,              \* its arguments
    sink,              \* how the injected sink behaved during the call
    entered_at,        \* the clock when the call was entered
    calls,             \* the calls the method made into the sink, in order
    outcome,           \* "returned" or "raised": how the call ended for its caller
    logged,            \* the scenario names the exception guard logged
    suspend_main,      \* frame of suspend.main: where it is and how it ended
    earlier,           \* how the invocation before this one ended, if any
    heap,              \* the caller's lists and dicts, and copies made of them
    slurm_node_spec,   \* the argument handed to _expand_slurm_node_spec
    gen,               \* frame of the _expand_slurm_node_spec generator
    received,          \* node names the consumer of the generator got so far
    result             \* the last helper application: its name, input and output

publisherVars == <<clock, pc, method, args, sink, entered_at, calls, outcome, logged>>

parserVars == <<slurm_node_spec, gen, received>>

vars == <<LAUNCH_FAILURE_GROUPING, publisherVars, suspend_main, earlier, heap,
          parserVars, result>>

-----------------------------------------------------------------------------
(* Bounds of the model.                                                    *)

\* longest node spec drawn exhaustively over Alphabet
MaxLen == 4
\* most fragments of Fragments joined with ',' into one node spec
MaxElems == 2
\* most error codes in one failed-nodes map
MaxCodes == 2
\* most node names listed under one error code
MaxNames == 1
\* longest list of node records handed to a publish_* method
MaxNodes == 2
\* latest sink call of an invocation that the sink may raise on
MaxSinkRaise == 2
\* latest clock reading
MaxClock == 1
\* longest list of nodes whose idle times are summarized
MaxIdleNodes == 3
\* longest idle time of a node
MaxIdleTime == 2

\* how many times in a row the roll-up is built
MaxRollUps == 2

-----------------------------------------------------------------------------
(* Sequence helpers.                                                       *)

RECURSIVE Flatten(_)
Flatten(ss) == IF ss = <<>> THEN <<>> ELSE Head(ss) \o Flatten(Tail(ss))

\* index of the first element of s that is in chars, 0 when there is none:
\* re.search of a one-character alternative, match.start() + 1
FirstPos(s, chars) ==
    IF \E i \in 1..Len(s) : s[i] \in chars
    THEN CHOOSE i \in 1..Len(s) :
             s[i] \in chars /\ \A j \in 1..(i - 1) : s[j] \notin chars
    ELSE 0

\* re.split(sep, s) for a one-character separator: never empty, "" -> [""]
RECURSIVE ReSplit(_, _)
ReSplit(s, sep) ==
    LET p == FirstPos(s, {sep})
    IN  IF p = 0 THEN <<s>>
        ELSE <<SubSeq(s, 1, p - 1)>> \o ReSplit(SubSeq(s, p + 1, Len(s)), sep)

Whitespace == {" "}

\* re.sub(r"\s+", "", s)
RECURSIVE StripWhitespace(_)
StripWhitespace(s) ==
    IF s = <<>> THEN <<>>
    ELSE IF Head(s) \in Whitespace THEN StripWhitespace(Tail(s))
    ELSE <<Head(s)>> \o StripWhitespace(Tail(s))

DigitChars == <<"0", "1", "2", "3", "4", "5", "6", "7", "8", "9">>

Digits == {DigitChars[i] : i \in 1..10}

DigitValue(c) == (CHOOSE i \in 1..10 : DigitChars[i] = c) - 1

\* whether int(s) returns: over the model's alphabet, a non-empty run of digits
IsIntLiteral(s) == s # <<>> /\ \A i \in 1..Len(s) : s[i] \in Digits

\* int(s) of a literal
RECURSIVE IntOf(_)
IntOf(s) ==
    IF s = <<>> THEN 0
    ELSE 10 * IntOf(SubSeq(s, 1, Len(s) - 1)) + DigitValue(s[Len(s)])

\* f"{n}" of a natural number
RECURSIVE FormatInt(_)
FormatInt(n) ==
    IF n < 10 THEN <<DigitChars[n + 1]>>
    ELSE FormatInt(n \div 10) \o <<DigitChars[(n % 10) + 1]>>

-----------------------------------------------------------------------------
(* _generate_from_range_spec and _expand_slurm_node_spec, as generators.   *)
(*                                                                         *)
(* A generator frame records where the generator is suspended:             *)
(*   at    "created"  not started (no line of the body has run)            *)
(*         "name"     suspended at `yield base_name` (line 758)            *)
(*         "range"    suspended inside `yield from` (line 765), the inner  *)
(*                    generator suspended at its yield (line 738)          *)
(*         "last"     suspended at `yield slurm_node_spec` (line 767)      *)
(*         "finished" returned (StopIteration)                             *)
(*         "raised"   ended by an exception                                *)
(*   rest  the local slurm_node_spec                                       *)
(*   base_name, span_list, span, node_number, end: the inner frame         *)

NewGenerator(spec) ==
    [at |-> "created", rest |-> spec, base_name |-> <<>>, span_list |-> <<>>,
     span |-> 0, node_number |-> 0, end |-> 0]

Dead(g, how) ==
    [at |-> how, rest |-> g.rest, base_name |-> <<>>, span_list |-> <<>>,
     span |-> 0, node_number |-> 0, end |-> 0]

Yield(g, name) == [g |-> g, out |-> "yield", val |-> name]

Raise(g) == [g |-> Dead(g, "raised"), out |-> "raise", val |-> <<>>]

Stop(g) == [g |-> Dead(g, "finished"), out |-> "stop", val |-> <<>>]

\* a faulty line 731: no span is rejected for its number of parts
AcceptsAnyPartCount(range_list) == Len(range_list) < 0

\* line 731: the test that rejects a span
InvalidRangeList(range_list) == Len(range_list) < 0 \/ Len(range_list) > 2

\* line 735: the test that rejects a descending range
InvalidRange(start, end) == start > end

\* a faulty line 737: range(start, end), one number short
RangeLastExclusive(start, end) == end - 1

\* line 737: the last number of range(start, end + 1)
RangeLast(start, end) == end

\* lines 729-738 from the top of the loop body for span number i (which exists)
EnterSpan(g, i) ==
    LET range_list == ReSplit(g.span_list[i], "-")
    IN  IF InvalidRangeList(range_list) THEN Raise(g)
        ELSE IF ~IsIntLiteral(range_list[1]) THEN Raise(g)
        ELSE IF Len(range_list) > 1 /\ ~IsIntLiteral(range_list[2]) THEN Raise(g)
        ELSE LET start == IntOf(range_list[1])
                 end == IF Len(range_list) > 1 THEN IntOf(range_list[2]) ELSE start
             IN  IF InvalidRange(start, end) THEN Raise(g)
                 ELSE IF start > RangeLast(start, end)
                 THEN [g |-> [g EXCEPT !.span = i], out |-> "skip", val |-> <<>>]
                 ELSE Yield([g EXCEPT !.at = "range", !.span = i,
                                      !.node_number = start,
                                      !.end = RangeLast(start, end)],
                            g.base_name \o FormatInt(start))

\* lines 750 and 760: the searches for the next terminator and for the bracket's end
TerminatorPos(s) == FirstPos(s, {"[", ","})

\* line 760: re.search(r"\],?", s): 0 when there is no match, else <<start, end>>
\* as 1-based positions of the first and the last character matched
ClosingMatch(s) ==
    LET q == FirstPos(s, {"]"})
    IN  IF q = 0 THEN <<0, 0>>
        ELSE IF q < Len(s) /\ s[q + 1] = "," THEN <<q, q + 1>>
        ELSE <<q, q>>

\* lines 749-768 from the top of the while loop; a bracketed element hands over
\* to the inner generator, whose spans are entered one after the other
RECURSIVE EnterSpans(_, _)
RECURSIVE ExpandLoop(_)
EnterSpans(g, i) ==
    IF i > Len(g.span_list) THEN ExpandLoop(g)
    ELSE LET r == EnterSpan(g, i)
         IN  IF r.out = "skip" THEN EnterSpans(g, i + 1) ELSE r

ExpandLoop(g) ==
    IF g.rest = <<>> THEN Stop(g)
    ELSE LET s == g.rest
             end_pos == TerminatorPos(s)
         IN  IF end_pos = 0 THEN Yield([g EXCEPT !.at = "last"], s)
             ELSE LET base_name == SubSeq(s, 1, end_pos - 1)
                  IN  IF base_name = <<>> THEN Raise(g)
                      ELSE IF s[end_pos] = ","
                      THEN Yield([g EXCEPT !.at = "name",
                                           !.rest = SubSeq(s, end_pos + 1, Len(s))],
                                 base_name)
                      ELSE LET match == ClosingMatch(s)
                           IN  IF match[1] = 0 \/ match[1] < end_pos THEN Raise(g)
                               ELSE EnterSpans(
                                        [g EXCEPT
                                           !.rest = SubSeq(s, match[2] + 1, Len(s)),
                                           !.base_name = base_name,
                                           !.span_list =
                                               ReSplit(SubSeq(s, end_pos + 1, match[1] - 1), ",")],
                                        1)

\* one next() on the generator
GeneratorNext(g) ==
    CASE g.at = "created" -> ExpandLoop([g EXCEPT !.rest = StripWhitespace(g.rest)])
      [] g.at = "name" -> ExpandLoop(g)
      [] g.at = "range" ->
            IF g.node_number + 1 <= g.end
            THEN Yield([g EXCEPT !.node_number = g.node_number + 1],
                       g.base_name \o FormatInt(g.node_number + 1))
            ELSE EnterSpans(g, g.span + 1)
      [] g.at = "last" -> Stop(g)
      [] OTHER -> [g |-> g, out |-> "stop", val |-> <<>>]

\* list(generator): the names when the iteration ends normally
RECURSIVE Materialize(_, _)
Materialize(g, acc) ==
    LET r == GeneratorNext(g)
    IN  CASE r.out = "yield" -> Materialize(r.g, Append(acc, r.val))
          [] r.out = "raise" -> [ok |-> FALSE, names |-> <<>>, g |-> r.g]
          [] OTHER -> [ok |-> TRUE, names |-> acc, g |-> r.g]

\* list(_expand_slurm_node_spec(spec))
ExpandList(spec) == Materialize(NewGenerator(spec), <<>>)

-----------------------------------------------------------------------------
(* The failure taxonomy: LAUNCH_FAILURE_GROUPING and the roll-up.          *)
(*                                                                         *)
(* A Python dict whose key order no claim reads is a function; an int and  *)
(* a list that may sit under one key are told apart by IntValue/ListValue. *)

\* SlurmNode.EC2_ICE_ERROR_CODES (slurm_plugin/slurm_resources.py)
EC2_ICE_ERROR_CODES ==
    { "InsufficientInstanceCapacity", "InsufficientHostCapacity",
      "InsufficientReservedInstanceCapacity", "MaxSpotInstanceCountExceeded",
      "Unsupported", "SpotMaxPriceTooLow" }

\* dict.update({k: v for k in keys}) on a function
DictUpdate(d, keys, v) ==
    [k \in DOMAIN d \cup keys |-> IF k \in keys THEN v ELSE d[k]]

EmptyDict == [k \in {} |-> 0]

\* lines 15-29: the table as the import leaves it
ImportedGrouping ==
    LET g0 == EmptyDict
        g1 == DictUpdate(g0, EC2_ICE_ERROR_CODES, "ice-failures")
        g2 == DictUpdate(g1, {"VcpuLimitExceeded"}, "vcpu-limit-failures")
        g3 == DictUpdate(g2, {"VolumeLimitExceeded", "InsufficientVolumeCapacity"},
                         "volume-limit-failures")
        g4 == DictUpdate(g3, {"InvalidBlockDeviceMapping"}, "custom-ami-errors")
        g5 == DictUpdate(g4, {"UnauthorizedOperation", "AccessDeniedException"},
                         "iam-policy-errors")
    IN  g5

\* line 716: the value dict.get falls back to
DefaultFailureType == "other-failures"

\* a faulty line 716: the table is never consulted
AlwaysDefaultFailureType(error_code) == DefaultFailureType

\* lines 714-716
_get_failure_type_from_error_code(error_code) ==
    IF error_code \in DOMAIN LAUNCH_FAILURE_GROUPING
    THEN LAUNCH_FAILURE_GROUPING[error_code]
    ELSE DefaultFailureType

IntValue(n) == [int |-> n]

ListValue(l) == [list |-> l]

IsIntValue(v) == DOMAIN v = {"int"}

\* a failed-nodes map is a sequence of entries [error_code, nodes] with
\* distinct error codes: the dict in its iteration order
TotalNames(failed_nodes) ==
    LET RECURSIVE Sum(_)
        Sum(i) == IF i = 0 THEN 0 ELSE Sum(i - 1) + Len(failed_nodes[i].nodes)
    IN  Sum(Len(failed_nodes))

\* buckets that keep the counts of the roll-up built before
LeftoverDetailMap ==
    LET failure_types ==
            {"other-failures"} \cup
            {LAUNCH_FAILURE_GROUPING[c] : c \in DOMAIN LAUNCH_FAILURE_GROUPING}
        Leftover(f) ==
            IF result.op = "iterate_launch_failure_details" /\ result.output.ok
            THEN IF IsIntValue(result.output.items[1][f]["count"])
                 THEN result.output.items[1][f]["count"]
                 ELSE IntValue(0)
            ELSE IntValue(0)
    IN  [f \in failure_types |-> [k \in {"count"} |-> Leftover(f)]]

\* lines 697-699: the buckets before any failure is counted
InitialDetailMap ==
    LET failure_types ==
            {"other-failures"} \cup
            {LAUNCH_FAILURE_GROUPING[c] : c \in DOMAIN LAUNCH_FAILURE_GROUPING}
    IN  [f \in failure_types |-> [k \in {"count"} |-> IntValue(0)]]

\* line 706: error_entry.update({"count": count + len(nodes), error_code: list(nodes)});
\* in the dict literal a later equal key replaces the earlier one
UpdatedEntry(error_entry, error_code, nodes) ==
    LET literal ==
            [k \in {"count", error_code} |->
                IF k = error_code THEN ListValue(nodes)
                ELSE IntValue(error_entry["count"].int + Len(nodes))]
    IN  [k \in DOMAIN error_entry \cup DOMAIN literal |->
            IF k \in DOMAIN literal THEN literal[k] ELSE error_entry[k]]

\* lines 701-706 for the entries from number i on: the buckets, or a raised
\* TypeError when a count that is no longer an int is added to
RECURSIVE CountFailures(_, _, _)
CountFailures(detail_map, failed_nodes, i) ==
    IF i > Len(failed_nodes) THEN [ok |-> TRUE, map |-> detail_map]
    ELSE LET error_code == failed_nodes[i].error_code
             nodes == failed_nodes[i].nodes
             failure_type == _get_failure_type_from_error_code(error_code)
             error_entry == detail_map[failure_type]
         IN  IF ~IsIntValue(error_entry["count"])
             THEN [ok |-> FALSE, map |-> detail_map]
             ELSE CountFailures(
                      [detail_map EXCEPT
                          ![failure_type] = UpdatedEntry(error_entry, error_code, nodes)],
                      failed_nodes, i + 1)

\* line 708: the total the roll-up reports
total_failures(failed_nodes) == TotalNames(failed_nodes)

\* lines 695-712, iterated to the end: the payloads yielded (one dict: a bucket
\* per failure type and the total), and whether the iteration ended normally
_get_launch_failure_details(failed_nodes) ==
    LET counted == CountFailures(InitialDetailMap, failed_nodes, 1)
    IN  IF counted.ok
        THEN [ok |-> TRUE,
              items |-> <<[k \in DOMAIN counted.map \cup {"total"} |->
                             IF k = "total" THEN IntValue(total_failures(failed_nodes))
                             ELSE counted.map[k]]>>]
        ELSE [ok |-> FALSE, items |-> <<>>]

\* a faulty lines 683-693: every node is reported under the default type
FlattenUnclassified(failed_nodes) ==
    [ok |-> TRUE,
     items |->
        Flatten([i \in 1..Len(failed_nodes) |->
            [j \in 1..Len(failed_nodes[i].nodes) |->
                [error_code |-> failed_nodes[i].error_code,
                 failure_type |-> DefaultFailureType,
                 node |-> [name |-> failed_nodes[i].nodes[j]]]]])]

\* lines 683-693, iterated to the end
_flatten_failed_launch_nodes(failed_nodes) ==
    [ok |-> TRUE,
     items |->
        Flatten([i \in 1..Len(failed_nodes) |->
            [j \in 1..Len(failed_nodes[i].nodes) |->
                [error_code |-> failed_nodes[i].error_code,
                 failure_type |->
                     _get_failure_type_from_error_code(failed_nodes[i].error_code),
                 node |-> [name |-> failed_nodes[i].nodes[j]]]]])]

-----------------------------------------------------------------------------
(* Node and instance records (slurm_plugin/slurm_resources.py,             *)
(* slurm_plugin/fleet_manager.py): what the publisher reads of them.       *)

\* Python's None where an object may stand
None == [none |-> TRUE]

\* a list where None may stand as well
Some(list) == [none |-> FALSE, value |-> list]

\* Python's None where a string may stand
NoneStr == "<None>"

\* EC2Instance.description()
InstanceDescription(instance) ==
    [id |-> instance.id, private_ip |-> instance.private_ip,
     hostname |-> instance.hostname, launch_time |-> instance.launch_time]

\* SlurmNode.description()
NodeDescription(node) ==
    [name |-> node.name,
     state_string |-> node.canonical_state_string,
     queue_name |-> node.queue_name,
     compute_resource |-> node.compute_resource_name,
     node_type |-> IF node.dynamic THEN "dy" ELSE "st",
     instance |-> IF node.instance = None THEN None
                  ELSE InstanceDescription(node.instance),
     idle_time |-> node.idle_time,
     error_code |-> node.error_code]

-----------------------------------------------------------------------------
(* Sequence idioms of the publisher's comprehensions.                      *)

\* [f(x) for x in s]
Map(s, f(_)) == [i \in 1..Len(s) |-> f(s[i])]

\* x in s
In(x, s) == \E i \in 1..Len(s) : s[i] = x

\* what a supplier yields when iterated to the end, and whether it ends
\* normally (ok) or by raising after the items
Supplied(items) == [ok |-> TRUE, items |-> items]

SuppliedThenRaises(items) == [ok |-> FALSE, items |-> items]

-----------------------------------------------------------------------------
(* One call into the sink, as the publisher makes it: supplied is what the *)
(* event_supplier (or the detail) delivers when the sink iterates it on    *)
(* receipt, deferred what it delivers when the sink iterates it only after *)
(* the method has returned.                                                *)

\* a sink call that passes its payload in both forms at once
DetailAndSupplierEvent(level, event_type, timestamp, detail) ==
    [level |-> level, event_type |-> event_type,
     kwargs |-> {"event_type", "timestamp", "detail", "event_supplier"},
     timestamp |-> timestamp, supplied |-> Supplied(<<detail>>),
     deferred |-> Supplied(<<detail>>)]

\* publish_event(level, message, event_type=..., timestamp=..., detail=...)
DetailEvent(level, event_type, timestamp, detail) ==
    [level |-> level, event_type |-> event_type,
     kwargs |-> {"event_type", "timestamp", "detail"},
     timestamp |-> timestamp, supplied |-> Supplied(<<detail>>),
     deferred |-> Supplied(<<detail>>)]

\* publish_event(level, message, event_type=..., timestamp=..., event_supplier=...)
SupplierEvent(level, event_type, timestamp, supplied) ==
    [level |-> level, event_type |-> event_type,
     kwargs |-> {"event_type", "timestamp", "event_supplier"},
     timestamp |-> timestamp, supplied |-> supplied, deferred |-> supplied]

\* publish_event(level, message, event_type=..., event_supplier=...)
UnstampedSupplierEvent(level, event_type, supplied) ==
    [level |-> level, event_type |-> event_type,
     kwargs |-> {"event_type", "event_supplier"},
     timestamp |-> -1, supplied |-> supplied, deferred |-> supplied]

-----------------------------------------------------------------------------
(* The helpers of ClusterEventPublisher that build payloads.               *)

\* a count of states that does not group the nodes: one payload per node
CountStatePerNode(nodes) ==
    Supplied(Map(nodes, LAMBDA node : [state |-> node.canonical_state_string,
                                       count |-> 1]))

\* lines 568-572: one payload per distinct state, in first-occurrence order
_count_cluster_states(nodes) ==
    LET states == Map(nodes, LAMBDA node : node.canonical_state_string)
        IsFirst(i) == \A j \in 1..(i - 1) : states[j] # states[i]
        Count(state) == Cardinality({i \in 1..Len(states) : states[i] = state})
        RECURSIVE From(_)
        From(i) ==
            IF i > Len(states) THEN <<>>
            ELSE IF IsFirst(i)
            THEN <<[state |-> states[i], count |-> Count(states[i])]>> \o From(i + 1)
            ELSE From(i + 1)
    IN  Supplied(From(1))

\* lines 575-583
_successful_node_launch_supplier(successful_nodes) ==
    Supplied(<<[count |-> Len(successful_nodes),
                nodes |-> Map(successful_nodes,
                              LAMBDA pair : [name |-> pair[1], id |-> pair[2].id,
                                             ip |-> pair[2].private_ip])]>>)

\* lines 585-600
_format_node_idle_time(max_node, idle_nodes) ==
    IF max_node # None /\ max_node.idle_time > 0
    THEN [idle_time |-> max_node.idle_time,
          idle_count |-> Len(idle_nodes),
          most_idle_node |->
              [name |-> max_node.name,
               partition |-> max_node.queue_name,
               resource |-> max_node.compute_resource_name,
               instance_id |-> IF max_node.instance # None
                               THEN max_node.instance.id ELSE NoneStr]]
    ELSE [idle_time |-> 0, idle_count |-> 0]

\* a faulty max(...): the last of the largest
LastMaxIdleNode(nodes) ==
    IF nodes = <<>> THEN None
    ELSE nodes[CHOOSE i \in 1..Len(nodes) :
                  /\ \A j \in 1..Len(nodes) : nodes[j].idle_time <= nodes[i].idle_time
                  /\ \A j \in (i + 1)..Len(nodes) : nodes[j].idle_time < nodes[i].idle_time]

\* max(nodes, default=None, key=idle_time): the first of the largest
MaxIdleNode(nodes) ==
    IF nodes = <<>> THEN None
    ELSE nodes[CHOOSE i \in 1..Len(nodes) :
                  /\ \A j \in 1..Len(nodes) : nodes[j].idle_time <= nodes[i].idle_time
                  /\ \A j \in 1..(i - 1) : nodes[j].idle_time < nodes[i].idle_time]

\* a faulty line 607: nodes that are not idle are kept as well
MaxIdleTimesOfAllNodes(nodes) ==
    LET IsDynamic(node) == node.idle_time >= 0 /\ node.dynamic
        IsStatic(node) == node.idle_time >= 0 /\ ~node.dynamic
        dynamic_nodes == SelectSeq(nodes, IsDynamic)
        static_nodes == SelectSeq(nodes, IsStatic)
    IN  Supplied(<<[dynamic |-> _format_node_idle_time(MaxIdleNode(dynamic_nodes),
                                                       dynamic_nodes),
                    static |-> _format_node_idle_time(MaxIdleNode(static_nodes),
                                                      static_nodes)]>>)

\* lines 602-618
_get_max_idle_times(nodes) ==
    LET IsIdleDynamic(node) == node.idle_time > 0 /\ node.dynamic
        IsIdleStatic(node) == node.idle_time > 0 /\ ~node.dynamic
        idle_dynamic_nodes == SelectSeq(nodes, IsIdleDynamic)
        idle_static_nodes == SelectSeq(nodes, IsIdleStatic)
        dynamic_node_max == MaxIdleNode(idle_dynamic_nodes)
        static_node_max == MaxIdleNode(idle_static_nodes)
    IN  Supplied(<<[dynamic |-> _format_node_idle_time(dynamic_node_max, idle_dynamic_nodes),
                    static |-> _format_node_idle_time(static_node_max, idle_static_nodes)]>>)

\* lines 620-624; the map is a sequence of [partition, resources], resources a
\* sequence of [resource, count]
_flatten_partition_failure_counts(partitions_failure_count_map) ==
    Supplied(Flatten(Map(partitions_failure_count_map,
        LAMBDA p : Map(p.resources,
            LAMBDA r : [partition |-> p.partition, resource |-> r.resource,
                        count |-> r.count]))))

\* the lists of nodes of an insufficient-capacity map, partition by partition
\* and resource by resource; the map is a sequence of [partition, resources],
\* resources a sequence of [resource, nodes]
IceNodeLists(ice_map) ==
    Flatten(Map(ice_map, LAMBDA p : Map(p.resources, LAMBDA r : r.nodes)))

\* lines 626-648
_count_insufficient_capacity_errors(ice_map) ==
    LET lists == IceNodeLists(ice_map)
        RECURSIVE Sum(_)
        Sum(i) == IF i = 0 THEN 0 ELSE Sum(i - 1) + Len(lists[i])
    IN  Supplied(<<[count |-> Sum(Len(lists)),
                    nodes |-> Map(Flatten(lists), LAMBDA node : [name |-> node.name])]>>)

\* lines 650-664
_flatten_insufficient_capacity_errors(ice_map) ==
    Supplied(Flatten(Map(ice_map,
        LAMBDA p : Map(p.resources,
            LAMBDA r : [partition |-> p.partition, resource |-> r.resource,
                        error_code |-> IF r.nodes # <<>> THEN r.nodes[1].error_code
                                       ELSE NoneStr,
                        count |-> Len(r.nodes),
                        nodes |-> Map(r.nodes, LAMBDA node : [name |-> node.name])]))))

\* lines 666-681
_flatten_insufficient_capacity_nodes(ice_map) ==
    Supplied(Flatten(Flatten(Map(ice_map,
        LAMBDA p : Map(p.resources,
            LAMBDA r : Map(r.nodes,
                LAMBDA node : [partition |-> p.partition, resource |-> r.resource,
                               failure_type |->
                                   _get_failure_type_from_error_code(node.error_code),
                               error_code |-> node.error_code,
                               node |-> NodeDescription(node)]))))))

NodeDetails(nodes) == Map(nodes, LAMBDA node : [node |-> NodeDescription(node)])

NodeNames(nodes) == Map(nodes, LAMBDA node : [name |-> node.name])

-----------------------------------------------------------------------------
(* The public methods of ClusterEventPublisher: the calls each makes into  *)
(* the sink, in order, when no call raises.  timestamp is the value the    *)
(* method's timestamp() call returned.                                     *)

\* lines 47-69
publish_cluster_node_events(cluster_nodes, timestamp) ==
    << SupplierEvent("INFO", "node-state-count", timestamp,
                     _count_cluster_states(cluster_nodes)),
       SupplierEvent("INFO", "idle-node-time", timestamp,
                     _get_max_idle_times(cluster_nodes)),
       SupplierEvent("DEBUG", "node-info", timestamp,
                     Supplied(NodeDetails(cluster_nodes))) >>

\* lines 72-94
publish_powering_down_node_events(powering_down_nodes, timestamp) ==
    << DetailEvent(IF powering_down_nodes # <<>> THEN "INFO" ELSE "DEBUG",
                   "node-powering-down-count", timestamp,
                   [count |-> Len(powering_down_nodes),
                    nodes |-> NodeNames(powering_down_nodes)]),
       SupplierEvent("DEBUG", "node-powering-down", timestamp,
                     Supplied(NodeDetails(powering_down_nodes))) >>

\* lines 97-152
publish_unhealthy_dynamic_node_events(unhealthy_dynamic_nodes, instances_to_terminate, power_down_nodes, timestamp) ==
    << DetailEvent(IF unhealthy_dynamic_nodes # <<>> THEN "WARNING" ELSE "DEBUG",
                   "dynamic-node-health-check-failure-count", timestamp,
                   [count |-> Len(unhealthy_dynamic_nodes),
                    nodes |-> NodeNames(unhealthy_dynamic_nodes)]),
       SupplierEvent("DEBUG", "dynamic-node-health-check-failure", timestamp,
                     Supplied(NodeDetails(unhealthy_dynamic_nodes))),
       DetailEvent(IF instances_to_terminate # <<>> THEN "INFO" ELSE "DEBUG",
                   "dynamic-node-failure-instance-terminate-count", timestamp,
                   [count |-> Len(instances_to_terminate),
                    instances |-> Map(instances_to_terminate, LAMBDA id : [id |-> id])]),
       DetailEvent(IF power_down_nodes # <<>> THEN "INFO" ELSE "DEBUG",
                   "dynamic-node-failure-power-down-count", timestamp,
                   [count |-> Len(power_down_nodes),
                    nodes |-> Map(power_down_nodes, LAMBDA name : [name |-> name])]) >>

\* lines 165-181
terminated_instances_supplier(unhealthy_static_nodes, instances_to_terminate) ==
    LET HasInstance(node) == node.instance # None
    IN  Supplied(<<[count |-> Len(instances_to_terminate),
                    nodes |-> Map(SelectSeq(unhealthy_static_nodes, HasInstance),
                                  LAMBDA node : [name |-> node.name,
                                                 id |-> node.instance.id,
                                                 ip |-> node.instance.private_ip,
                                                 error_code |-> node.error_code,
                                                 reason |-> node.reason])]>>)

\* lines 218-232 and 537-551: the generator over (node, instance) pairs
SuccessfulLaunchDetails(successful_nodes) ==
    Supplied(Map(successful_nodes,
                 LAMBDA pair : [node |-> [name |-> pair[1]],
                                instance |-> InstanceDescription(pair[2])]))

\* line 185: the level of the static-node-health-check-failure-count event
StaticHealthCheckCountLevel(unhealthy_static_nodes) ==
    IF unhealthy_static_nodes # <<>> THEN "INFO" ELSE "DEGUG"

\* lines 276-285: the generator expression of the loop body, iterated while
\* the loop variables error_code and failed_node_list hold entry number i
LaunchFailureDetails(unhealthy_static_nodes, failed_nodes, i) ==
    LET error_code == failed_nodes[i].error_code
        failed_node_list == failed_nodes[i].nodes
        Failed(node) == In(node.name, failed_node_list)
    IN  Supplied(Map(SelectSeq(unhealthy_static_nodes, Failed),
                     LAMBDA node : [node |-> NodeDescription(node),
                                    error_code |-> error_code,
                                    failure_type |->
                                        _get_failure_type_from_error_code(error_code)]))

\* lines 269-286: the call made for entry number i of failed_nodes; the
\* generator reads the loop variables when it is iterated, and once the loop
\* has ended they hold the last entry
StaticLaunchFailureEvent(unhealthy_static_nodes, failed_nodes, i, timestamp) ==
    [level |-> "DEBUG", event_type |-> "node-launch-failure",
     kwargs |-> {"event_type", "timestamp", "event_supplier"},
     timestamp |-> timestamp,
     supplied |-> LaunchFailureDetails(unhealthy_static_nodes, failed_nodes, i),
     deferred |-> LaunchFailureDetails(unhealthy_static_nodes, failed_nodes,
                                       Len(failed_nodes))]

\* lines 155-286
publish_unhealthy_static_node_events(unhealthy_static_nodes, instances_to_terminate, successful_nodes, nodes_in_replacement, failed_nodes, timestamp) ==
    LET InReplacement(node) == In(node.name, nodes_in_replacement)
    IN  << DetailEvent(StaticHealthCheckCountLevel(unhealthy_static_nodes),
                       "static-node-health-check-failure-count", timestamp,
                       [count |-> Len(unhealthy_static_nodes),
                        nodes |-> NodeNames(unhealthy_static_nodes)]),
           SupplierEvent("DEBUG", "static-node-health-check-failure", timestamp,
                         Supplied(NodeDetails(unhealthy_static_nodes))),
           SupplierEvent(IF instances_to_terminate # <<>> THEN "INFO" ELSE "DEBUG",
                         "static-node-failure-instance-terminate-count", timestamp,
                         terminated_instances_supplier(unhealthy_static_nodes,
                                                       instances_to_terminate)),
           SupplierEvent("INFO", "successful-node-launch-count", timestamp,
                         _successful_node_launch_supplier(successful_nodes)),
           SupplierEvent("DEBUG", "successful-node-launch", timestamp,
                         SuccessfulLaunchDetails(successful_nodes)),
           DetailEvent(IF nodes_in_replacement # <<>> THEN "INFO" ELSE "DEBUG",
                       "static-nodes-in-replacement-count", timestamp,
                       [count |-> Len(nodes_in_replacement),
                        nodes |-> Map(nodes_in_replacement,
                                      LAMBDA name : [name |-> name])]),
           SupplierEvent("DEBUG", "static-node-in-replacement", timestamp,
                         Supplied(NodeDetails(SelectSeq(unhealthy_static_nodes,
                                                        InReplacement)))),
           SupplierEvent(IF failed_nodes # <<>> THEN "WARNING" ELSE "DEBUG",
                         "node-launch-failure-count", timestamp,
                         _get_launch_failure_details(failed_nodes)) >>
        \o [i \in 1..Len(failed_nodes) |->
               StaticLaunchFailureEvent(unhealthy_static_nodes, failed_nodes, i,
                                        timestamp)]

\* lines 289-317
publish_orphaned_instance_events(cluster_instances, instances_to_terminate, timestamp) ==
    LET ToTerminate(instance) == In(instance.id, instances_to_terminate)
        orphans == SelectSeq(cluster_instances, ToTerminate)
    IN  << DetailEvent(IF instances_to_terminate # <<>> THEN "WARNING" ELSE "DEBUG",
                       "orphaned-instance-count", timestamp,
                       [count |-> Len(instances_to_terminate),
                        instances |-> Map(orphans, LAMBDA instance : [id |-> instance.id])]),
           SupplierEvent("DEBUG", "terminating-orphaned-instance", timestamp,
                         Supplied(Map(orphans,
                             LAMBDA instance :
                                 [instance |-> InstanceDescription(instance)]))) >>

\* lines 320-341
publish_entering_protected_mode_events(partitions_protected_failure_count_map, timestamp) ==
    << DetailEvent("WARNING", "cluster-entering-protected-mode", timestamp,
                   [partition_failures |-> partitions_protected_failure_count_map]),
       SupplierEvent("DEBUG", "partition-compute-resource-failure-count", timestamp,
                     _flatten_partition_failure_counts(
                         partitions_protected_failure_count_map)) >>

\* lines 344-387
publish_nodes_failing_health_check_events(health_check_type, nodes_failing_health_check, rebooting_nodes, timestamp) ==
    << DetailEvent(IF nodes_failing_health_check # <<>> THEN "WARNING" ELSE "DEBUG",
                   "node-failed-health-check-count", timestamp,
                   [health_check_type |-> health_check_type,
                    count |-> Len(nodes_failing_health_check),
                    nodes |-> NodeNames(nodes_failing_health_check)]),
       DetailEvent(IF rebooting_nodes # <<>> THEN "INFO" ELSE "DEBUG",
                   "rebooted-nodes-count", timestamp,
                   [health_check_type |-> health_check_type,
                    count |-> Len(rebooting_nodes),
                    nodes |-> NodeNames(rebooting_nodes)]),
       SupplierEvent("DEBUG", "node-failed-health-check", timestamp,
                     Supplied(Map(nodes_failing_health_check,
                         LAMBDA node : [health_check_type |-> health_check_type,
                                        node |-> NodeDescription(node)]))) >>

\* lines 392-425
publish_failed_health_check_nodes_in_replacement(nodes_in_replacement, timestamp) ==
    << DetailEvent(IF nodes_in_replacement # <<>> THEN "WARNING" ELSE "DEBUG",
                   "static-node-replacement-failure-count", timestamp,
                   [count |-> Len(nodes_in_replacement),
                    nodes |-> NodeNames(nodes_in_replacement)]),
       SupplierEvent("DEBUG", "static-node-replacement-health-check-failure", timestamp,
                     Supplied(NodeDetails(nodes_in_replacement))) >>

\* lines 428-466
publish_handle_powering_down_nodes_events(powering_down_nodes, instances_to_terminate, timestamp) ==
    LET Terminated(node) ==
            node.instance # None /\ In(node.instance.id, instances_to_terminate)
        backed == SelectSeq(powering_down_nodes, Terminated)
    IN  << SupplierEvent(IF instances_to_terminate # <<>> THEN "INFO" ELSE "DEBUG",
                         "node-powering-down-instance-count", timestamp,
                         Supplied(<<[count |-> Len(instances_to_terminate),
                                     nodes |-> Map(backed,
                                         LAMBDA node : [name |-> node.name,
                                                        id |-> node.instance.id])]>>)),
           SupplierEvent("DEBUG", "node-powering-down-instance", timestamp,
                         Supplied(NodeDetails(backed))) >>

\* lines 472-481
publish_add_instance_for_nodes_success_events(successful_nodes, timestamp) ==
    << SupplierEvent("DEBUG", "successful-node-launch-batch-count", timestamp,
                     _successful_node_launch_supplier(successful_nodes)) >>

\* lines 491-499: iterating None raises a TypeError before anything is yielded
supply_details(error_code, error_message, failed_nodes) ==
    IF failed_nodes = None THEN SuppliedThenRaises(<<>>)
    ELSE Supplied(<<[count |-> IF failed_nodes.value # <<>>
                               THEN Len(failed_nodes.value) ELSE 0,
                     error_code |-> error_code,
                     error_message |-> error_message,
                     nodes |-> Map(failed_nodes.value,
                                   LAMBDA node : [name |-> node])]>>)

\* lines 486-507
publish_add_instance_for_nodes_failure_events(error_code, error_message, failed_nodes, timestamp) ==
    << SupplierEvent("INFO", "batch-node-launch-failure-count", timestamp,
                     supply_details(error_code, error_message, failed_nodes)) >>

\* lines 510-551
publish_node_launch_events(successful_nodes, failed_nodes, timestamp) ==
    << SupplierEvent(IF failed_nodes # <<>> THEN "WARNING" ELSE "DEBUG",
                     "node-launch-failure-count", timestamp,
                     _get_launch_failure_details(failed_nodes)),
       SupplierEvent("INFO", "successful-node-launch-count", timestamp,
                     _successful_node_launch_supplier(successful_nodes)),
       SupplierEvent("DEBUG", "node-launch-failure", timestamp,
                     _flatten_failed_launch_nodes(failed_nodes)),
       SupplierEvent("DEBUG", "successful-node-launch", timestamp,
                     SuccessfulLaunchDetails(successful_nodes)) >>

\* the names a generator yields until it ends, normally or not
RECURSIVE NamesYielded(_, _)
NamesYielded(g, acc) ==
    LET r == GeneratorNext(g)
    IN  IF r.out = "yield" THEN NamesYielded(r.g, Append(acc, r.val)) ELSE acc

\* a supplier that yields the names expanded before the failure
PartialDetailSupplier(node_spec) ==
    LET expanded == ExpandList(node_spec)
        partial == NamesYielded(NewGenerator(node_spec), <<>>)
    IN  IF expanded.ok THEN Supplied(<<[nodes |-> expanded.names]>>)
        ELSE SuppliedThenRaises(<<[nodes |-> partial]>>)

\* lines 556-557 and 563-564: list(...) of the expansion in one payload, or
\* the parse failure raised out of the supplier
detail_supplier(node_spec) ==
    LET expanded == ExpandList(node_spec)
    IN  IF expanded.ok THEN Supplied(<<[nodes |-> expanded.names]>>)
        ELSE SuppliedThenRaises(<<>>)

\* lines 555-559
publish_suspend_events(node_spec) ==
    << UnstampedSupplierEvent("DEBUG", "suspend-node", detail_supplier(node_spec)) >>

\* lines 562-566
publish_suspend_error_events(error_message, node_spec) ==
    << UnstampedSupplierEvent("ERROR", "suspend-error", detail_supplier(node_spec)) >>

\* publish_insufficient_capacity_events, which the tests call (test lines
\* 2338-2359): the count, the errors per resource, then the nodes
publish_insufficient_capacity_events(ice_compute_resources_and_nodes_map, timestamp) ==
    << SupplierEvent(IF ice_compute_resources_and_nodes_map # <<>>
                     THEN "WARNING" ELSE "DEBUG",
                     "insufficient-capacity-error-count", timestamp,
                     _count_insufficient_capacity_errors(
                         ice_compute_resources_and_nodes_map)),
       SupplierEvent("DEBUG", "insufficient-capacity-errors", timestamp,
                     _flatten_insufficient_capacity_errors(
                         ice_compute_resources_and_nodes_map)),
       SupplierEvent("DEBUG", "insufficient-capacity-node", timestamp,
                     _flatten_insufficient_capacity_nodes(
                         ice_compute_resources_and_nodes_map)) >>

-----------------------------------------------------------------------------
(* Node specs the parser is run on.                                        *)

Alphabet == {"a", "1", "2", "[", "]", ",", "-"}

\* every string over Alphabet of at most n characters
StringsUpTo(n) == UNION {[1..k -> Alphabet] : k \in 0..n}

\* elements, well formed and not, longer than MaxLen allows exhaustively
Fragments ==
    { <<>>,
      <<"a">>,
      <<"b", "-", "7">>,
      <<"a", "[", "1", "-", "2", "]">>,
      <<"a", "[", "2", ",", "1", "-", "3", "]">>,
      <<"a", "[", "0", "9", "-", "1", "1", "]">>,
      <<" ", "a", "[", "1", ",", " ", "2", "]", " ">>,
      <<"a", "[", "2", "-", "1", "]">>,
      <<"a", "[", "1", ",", "3", "-", "2", "]">>,
      <<"a", "[", "1", "-", "3", "-", "8", "]">>,
      <<"a", "[", "1", "-", "]">>,
      <<"a", "[", "-", "2", "]">>,
      <<"a", "[", "1", ",", "b", "]">>,
      <<"a", "[", "1", "-", "2">>,
      <<"a", "[", "1", "]", "b">>,
      <<"a", "[", "1", "]", "]">>,
      <<"[", "1", "]">> }

\* lists of at most n fragments
FragmentListsUpTo(n) == UNION {[1..k -> Fragments] : k \in 0..n}

\* ",".join(fs)
RECURSIVE JoinComma(_)
JoinComma(fs) ==
    IF fs = <<>> THEN <<>>
    ELSE IF Len(fs) = 1 THEN fs[1]
    ELSE fs[1] \o <<",">> \o JoinComma(Tail(fs))

NodeSpecs ==
    StringsUpTo(MaxLen) \cup {JoinComma(fs) : fs \in FragmentListsUpTo(MaxElems)}

-----------------------------------------------------------------------------
(* Error codes and failed-nodes maps the taxonomy is run on.               *)

\* error codes absent from the table; "count" is also the bucket's counter key
UnlistedErrorCodes == {"SporksAreNeitherForksNorSpoons", "count"}

ErrorCodes == DOMAIN ImportedGrouping \cup UnlistedErrorCodes

\* the error codes of the failed-nodes maps: two of one failure type among them
RollupErrorCodes ==
    {"InsufficientHostCapacity", "VcpuLimitExceeded"} \cup UnlistedErrorCodes

FailedNodeNames == {"q1-st-c5-1", "q1-st-c5-2"}

NameListsUpTo(n) == UNION {[1..k -> FailedNodeNames] : k \in 0..n}

FailedNodeMapsUpTo(n) ==
    { m \in UNION {[1..k -> [error_code : RollupErrorCodes,
                            nodes : NameListsUpTo(MaxNames)]] : k \in 0..n} :
        \A i, j \in 1..Len(m) : i # j => m[i].error_code # m[j].error_code }

FailedNodeMaps == FailedNodeMapsUpTo(MaxCodes)

NoResult == [op |-> "none"]

-----------------------------------------------------------------------------
(* Records and collections the publish_* methods are called with.          *)

Instance1 ==
    [id |-> "i-1", private_ip |-> "ip-1", hostname |-> "host-1",
     launch_time |-> "t-1"]

Instance2 ==
    [id |-> "i-2", private_ip |-> "ip-2", hostname |-> "host-2",
     launch_time |-> "t-2"]

\* a dynamic node, idle, backed by an instance
Node1 ==
    [name |-> "q1-dy-c5-1", dynamic |-> TRUE,
     canonical_state_string |-> "IDLE+CLOUD", idle_time |-> 5,
     queue_name |-> "q1", compute_resource_name |-> "c5",
     instance |-> Instance1, error_code |-> NoneStr, reason |-> NoneStr]

\* a static node without an instance, down after an ICE failure
Node2 ==
    [name |-> "q1-st-c5-1", dynamic |-> FALSE,
     canonical_state_string |-> "DOWN+CLOUD", idle_time |-> 0,
     queue_name |-> "q1", compute_resource_name |-> "c5",
     instance |-> None, error_code |-> "InsufficientHostCapacity",
     reason |-> "(Code:InsufficientHostCapacity)Failure when resuming nodes"]

\* a static node, idle, backed by an instance, with an earlier failure
Node3 ==
    [name |-> "q1-st-c5-2", dynamic |-> FALSE,
     canonical_state_string |-> "IDLE+CLOUD", idle_time |-> 5,
     queue_name |-> "q1", compute_resource_name |-> "c5",
     instance |-> Instance2, error_code |-> "VcpuLimitExceeded",
     reason |-> "(Code:VcpuLimitExceeded)Failure when resuming nodes"]

NodeUniverse == {Node1, Node2, Node3}

NodeLists == UNION {[1..k -> NodeUniverse] : k \in 0..MaxNodes}

\* identifiers to terminate: of known instances, and one matching no record
InstanceIdLists == { <<>>, <<"i-1">>, <<"i-2", "i-9">> }

InstanceLists == { <<>>, <<Instance1>>, <<Instance2, Instance1>> }

NodeNameLists == { <<>>, <<"q1-st-c5-1">>, <<"q1-st-c5-2", "q9-st-c5-9">> }

Entry(error_code, nodes) == [error_code |-> error_code, nodes |-> nodes]

IceFailedNodes == <<Entry("InsufficientHostCapacity", <<"q1-st-c5-1">>)>>

MixedFailedNodes ==
    <<Entry("VcpuLimitExceeded", <<"q1-st-c5-2", "q1-st-c5-1">>),
      Entry("SporksAreNeitherForksNorSpoons", <<"q1-st-c5-1">>)>>

\* an error code that is itself the key "count"
CountFailedNodes == <<Entry("count", <<"q1-st-c5-2">>)>>

CountThenOtherFailedNodes ==
    <<Entry("count", <<"q1-st-c5-2">>),
      Entry("SporksAreNeitherForksNorSpoons", <<"q1-st-c5-1">>)>>

\* failed-nodes maps of the scenarios with several collections
SampleFailedNodeMaps ==
    { <<>>, IceFailedNodes, MixedFailedNodes, CountFailedNodes,
      CountThenOtherFailedNodes }

Round(terminate, successful, replacing, failed) ==
    [instances_to_terminate |-> terminate, successful_nodes |-> successful,
     nodes_in_replacement |-> replacing, failed_nodes |-> failed]

OneLaunched == <<<<"q1-st-c5-1", Instance1>>>>

TwoLaunched == <<<<"q1-dy-c5-1", Instance1>>, <<"q1-st-c5-2", Instance2>>>>

SuccessfulNodeLists == { <<>>, OneLaunched, TwoLaunched }

\* what one round of static-node maintenance hands over besides the unhealthy
\* nodes: each collection empty and not, alone and with the others
ReplacementRounds ==
    { Round(<<>>, <<>>, <<>>, <<>>),
      Round(<<"i-1">>, <<>>, <<>>, <<>>),
      Round(<<>>, OneLaunched, <<>>, <<>>),
      Round(<<>>, <<>>, <<"q1-st-c5-1">>, <<>>),
      Round(<<>>, <<>>, <<>>, IceFailedNodes),
      Round(<<>>, <<>>, <<>>, CountFailedNodes),
      Round(<<"i-1">>, OneLaunched, <<>>, MixedFailedNodes),
      Round(<<"i-2", "i-9">>, TwoLaunched, <<"q1-st-c5-2", "q9-st-c5-9">>,
            IceFailedNodes),
      Round(<<"i-2", "i-9">>, <<>>, <<"q1-st-c5-1">>, CountThenOtherFailedNodes),
      Round(<<"i-1">>, TwoLaunched, <<"q1-st-c5-2", "q9-st-c5-9">>,
            MixedFailedNodes) }

PartitionFailureMaps ==
    { <<>>,
      <<[partition |-> "q1", resources |-> <<[resource |-> "c5", count |-> 3]>>]>>,
      <<[partition |-> "q1", resources |-> <<[resource |-> "c5", count |-> 1],
                                             [resource |-> "c6", count |-> 2]>>],
        [partition |-> "q2", resources |-> <<>>]>> }

IceMaps ==
    { <<>>,
      <<[partition |-> "q1", resources |-> <<[resource |-> "c5", nodes |-> <<Node2>>]>>]>>,
      <<[partition |-> "q1", resources |-> <<[resource |-> "c5", nodes |-> <<Node2, Node3>>],
                                             [resource |-> "c6", nodes |-> <<>>]>>]>> }

HealthCheckTypes == {"ec2_health_check"}

ErrorMessages == {"No valid clustermgtd heartbeat detected, clustermgtd is down! "}

\* node specs handed to the suspend notifications
SuspendNodeSpecs ==
    Fragments \cup { <<"a", ",", ",", "a">>, <<"a", ",", "b", "-", "7">> }

\* when the sink iterates the suppliers it is handed
Consumption == {"on_receipt", "deferred", "never"}

\* the behaviours of the injected sink during one invocation: when it
\* iterates the suppliers it is handed, and the call it raises on (0: none;
\* a sink that raises on every call raises on call 1, which ends the invocation)
SinkBehaviours == [consumes : Consumption, raises_at : 0..MaxSinkRaise]

-----------------------------------------------------------------------------
(* The sink at work and the exception guard.                               *)

\* a publisher that goes on calling the sink after a call has raised
RECURSIVE RunSinkPastFailure(_, _, _)
RunSinkPastFailure(plan, behaviour, i) ==
    IF i > Len(plan) THEN [calls |-> <<>>, raised |-> FALSE]
    ELSE LET call == plan[i]
             sink_raises == behaviour.raises_at = i
             made == [level |-> call.level, event_type |-> call.event_type,
                      kwargs |-> call.kwargs, timestamp |-> call.timestamp,
                      delivered |-> <<>>, raised |-> sink_raises]
             later == RunSinkPastFailure(plan, behaviour, i + 1)
         IN  [calls |-> <<made>> \o later.calls,
              raised |-> made.raised \/ later.raised]

\* the calls of plan made from call number i on, each with what the sink was
\* delivered (then, or after the method returned), up to the call that
\* raised: the sink itself, or a supplier the sink iterated on receipt
RECURSIVE RunSink(_, _, _)
RunSink(plan, behaviour, i) ==
    IF i > Len(plan) THEN [calls |-> <<>>, raised |-> FALSE]
    ELSE LET call == plan[i]
             sink_raises == behaviour.raises_at = i
             iterates == /\ ~sink_raises
                         /\ \/ "detail" \in call.kwargs
                            \/ behaviour.consumes = "on_receipt"
             supplier_raises == iterates /\ ~call.supplied.ok
             made == [level |-> call.level, event_type |-> call.event_type,
                      kwargs |-> call.kwargs, timestamp |-> call.timestamp,
                      delivered |->
                          CASE iterates -> call.supplied.items
                            [] ~sink_raises /\ behaviour.consumes = "deferred" ->
                                   call.deferred.items
                            [] OTHER -> <<>>,
                      raised |-> sink_raises \/ supplier_raises]
         IN  IF made.raised THEN [calls |-> <<made>>, raised |-> TRUE]
             ELSE LET later == RunSink(plan, behaviour, i + 1)
                  IN  [calls |-> <<made>> \o later.calls, raised |-> later.raised]

\* the first argument of each method's @log_exception decorator
action_desc(m) ==
    CASE m = "publish_suspend_events" -> "publish_node_launch_events"
      [] m = "publish_suspend_error_events" -> "publish_node_launch_events"
      [] OTHER -> m

\* a faulty decorator: one method asks for the exception to be raised again
RaiseOnSuspendError(m) == m = "publish_suspend_error_events"

\* the raise_on_error argument of each method's @log_exception decorator
raise_on_error(m) == FALSE

\* slurm_plugin.common.log_exception with catch_exception=Exception: what the
\* wrapper logs and how it ends when the wrapped body raised an Exception
log_exception(desc, reraise, body_raised) ==
    [logged |-> IF body_raised THEN <<desc>> ELSE <<>>,
     outcome |-> IF body_raised /\ reraise THEN "raised" ELSE "returned"]

NoArgs == [none |-> TRUE]

\* nothing is kept on the heap
NoHeap == <<>>

\* suspend.main is not run
NoMain == [at |-> "not_run", nodes |-> <<>>, heartbeat |-> "unchecked",
           outcome |-> "none"]

NoSink == [consumes |-> "never", raises_at |-> 0]

PublisherIdle ==
    /\ pc = "idle"
    /\ method = "none"
    /\ args = NoArgs
    /\ sink = NoSink
    /\ entered_at = 0
    /\ calls = <<>>
    /\ outcome = "none"
    /\ logged = <<>>

\* a call of method m with arguments a, making the calls of plan into a sink
\* of the given behaviour, the clock reading `now` when it ends
Call(m, a, plan, behaviour, now) ==
    LET run == RunSink(plan, behaviour, 1)
        guard == log_exception(action_desc(m), raise_on_error(m), run.raised)
    IN  /\ pc' = "done"
        /\ method' = m
        /\ args' = a
        /\ sink' = behaviour
        /\ entered_at' = clock
        /\ clock' = now
        /\ calls' = run.calls
        /\ outcome' = guard.outcome
        /\ logged' = guard.logged

\* such a call made by a caller other than suspend.main
Invoke(m, a, plan, behaviour, now) ==
    /\ Call(m, a, plan, behaviour, now)
    /\ UNCHANGED <<LAUNCH_FAILURE_GROUPING, earlier, heap, suspend_main, parserVars, result>>

\* the clock readings a later timestamp() call of the same invocation may return
LaterReadings == {t \in {clock, clock + 1} : t <= MaxClock}

-----------------------------------------------------------------------------
(* The publisher under its callers: Spec.  One action per public method,   *)
(* called with the publisher idle; Return hands control back.              *)

Init ==
    /\ LAUNCH_FAILURE_GROUPING = ImportedGrouping
    /\ clock = 0
    /\ PublisherIdle
    /\ earlier = "none"
    /\ heap = NoHeap
    /\ suspend_main = NoMain
    /\ slurm_node_spec = <<>>
    /\ gen = Dead(NewGenerator(<<>>), "finished")
    /\ received = <<>>
    /\ result = NoResult

PublishClusterNodeEvents ==
    /\ pc = "idle"
    /\ \E cluster_nodes \in NodeLists, behaviour \in SinkBehaviours :
           Invoke("publish_cluster_node_events",
                  [cluster_nodes |-> cluster_nodes],
                  publish_cluster_node_events(cluster_nodes, clock),
                  behaviour, clock)

PublishPoweringDownNodeEvents ==
    /\ pc = "idle"
    /\ \E powering_down_nodes \in NodeLists, behaviour \in SinkBehaviours :
           Invoke("publish_powering_down_node_events",
                  [powering_down_nodes |-> powering_down_nodes],
                  publish_powering_down_node_events(powering_down_nodes, clock),
                  behaviour, clock)

PublishUnhealthyDynamicNodeEvents ==
    /\ pc = "idle"
    /\ \E unhealthy_dynamic_nodes \in NodeLists,
          instances_to_terminate \in InstanceIdLists,
          power_down_nodes \in NodeNameLists, behaviour \in SinkBehaviours :
           Invoke("publish_unhealthy_dynamic_node_events",
                  [unhealthy_dynamic_nodes |-> unhealthy_dynamic_nodes,
                   instances_to_terminate |-> instances_to_terminate,
                   power_down_nodes |-> power_down_nodes],
                  publish_unhealthy_dynamic_node_events(
                      unhealthy_dynamic_nodes, instances_to_terminate,
                      power_down_nodes, clock),
                  behaviour, clock)

\* timestamp() is read twice (lines 163 and 183); the calls carry the second
\* reading
PublishUnhealthyStaticNodeEvents ==
    /\ pc = "idle"
    /\ \E unhealthy_static_nodes \in NodeLists, round \in ReplacementRounds,
          timestamp \in LaterReadings, behaviour \in SinkBehaviours :
           Invoke("publish_unhealthy_static_node_events",
                  [unhealthy_static_nodes |-> unhealthy_static_nodes,
                   instances_to_terminate |-> round.instances_to_terminate,
                   successful_nodes |-> round.successful_nodes,
                   nodes_in_replacement |-> round.nodes_in_replacement,
                   failed_nodes |-> round.failed_nodes],
                  publish_unhealthy_static_node_events(
                      unhealthy_static_nodes, round.instances_to_terminate,
                      round.successful_nodes, round.nodes_in_replacement,
                      round.failed_nodes, timestamp),
                  behaviour, timestamp)

PublishOrphanedInstanceEvents ==
    /\ pc = "idle"
    /\ \E cluster_instances \in InstanceLists,
          instances_to_terminate \in InstanceIdLists, behaviour \in SinkBehaviours :
           Invoke("publish_orphaned_instance_events",
                  [cluster_instances |-> cluster_instances,
                   instances_to_terminate |-> instances_to_terminate],
                  publish_orphaned_instance_events(
                      cluster_instances, instances_to_terminate, clock),
                  behaviour, clock)

PublishEnteringProtectedModeEvents ==
    /\ pc = "idle"
    /\ \E failure_count_map \in PartitionFailureMaps, behaviour \in SinkBehaviours :
           Invoke("publish_entering_protected_mode_events",
                  [partitions_protected_failure_count_map |-> failure_count_map],
                  publish_entering_protected_mode_events(failure_count_map, clock),
                  behaviour, clock)

PublishNodesFailingHealthCheckEvents ==
    /\ pc = "idle"
    /\ \E health_check_type \in HealthCheckTypes,
          nodes_failing_health_check \in NodeLists,
          rebooting_nodes \in NodeLists, behaviour \in SinkBehaviours :
           Invoke("publish_nodes_failing_health_check_events",
                  [health_check_type |-> health_check_type,
                   nodes_failing_health_check |-> nodes_failing_health_check,
                   rebooting_nodes |-> rebooting_nodes],
                  publish_nodes_failing_health_check_events(
                      health_check_type, nodes_failing_health_check,
                      rebooting_nodes, clock),
                  behaviour, clock)

PublishFailedHealthCheckNodesInReplacement ==
    /\ pc = "idle"
    /\ \E nodes_in_replacement \in NodeLists, behaviour \in SinkBehaviours :
           Invoke("publish_failed_health_check_nodes_in_replacement",
                  [nodes_in_replacement |-> nodes_in_replacement],
                  publish_failed_health_check_nodes_in_replacement(
                      nodes_in_replacement, clock),
                  behaviour, clock)

PublishHandlePoweringDownNodesEvents ==
    /\ pc = "idle"
    /\ \E powering_down_nodes \in NodeLists,
          instances_to_terminate \in InstanceIdLists, behaviour \in SinkBehaviours :
           Invoke("publish_handle_powering_down_nodes_events",
                  [powering_down_nodes |-> powering_down_nodes,
                   instances_to_terminate |-> instances_to_terminate],
                  publish_handle_powering_down_nodes_events(
                      powering_down_nodes, instances_to_terminate, clock),
                  behaviour, clock)

PublishAddInstanceForNodesSuccessEvents ==
    /\ pc = "idle"
    /\ \E successful_nodes \in SuccessfulNodeLists, behaviour \in SinkBehaviours :
           Invoke("publish_add_instance_for_nodes_success_events",
                  [successful_nodes |-> successful_nodes],
                  publish_add_instance_for_nodes_success_events(successful_nodes, clock),
                  behaviour, clock)

PublishAddInstanceForNodesFailureEvents ==
    /\ pc = "idle"
    /\ \E error_code \in ErrorCodes, error_message \in ErrorMessages,
          failed_nodes \in {Some(names) : names \in NodeNameLists} \cup {None},
          behaviour \in SinkBehaviours :
           Invoke("publish_add_instance_for_nodes_failure_events",
                  [error_code |-> error_code, error_message |-> error_message,
                   failed_nodes |-> failed_nodes],
                  publish_add_instance_for_nodes_failure_events(
                      error_code, error_message, failed_nodes, clock),
                  behaviour, clock)

PublishNodeLaunchEvents ==
    /\ pc = "idle"
    /\ \E successful_nodes \in SuccessfulNodeLists,
          failed_nodes \in SampleFailedNodeMaps, behaviour \in SinkBehaviours :
           Invoke("publish_node_launch_events",
                  [successful_nodes |-> successful_nodes,
                   failed_nodes |-> failed_nodes],
                  publish_node_launch_events(successful_nodes, failed_nodes, clock),
                  behaviour, clock)

PublishSuspendEvents ==
    /\ pc = "idle"
    /\ \E node_spec \in SuspendNodeSpecs, behaviour \in SinkBehaviours :
           Invoke("publish_suspend_events",
                  [slurm_node_spec |-> node_spec],
                  publish_suspend_events(node_spec),
                  behaviour, clock)

PublishSuspendErrorEvents ==
    /\ pc = "idle"
    /\ \E error_message \in ErrorMessages, node_spec \in SuspendNodeSpecs,
          behaviour \in SinkBehaviours :
           Invoke("publish_suspend_error_events",
                  [error_message |-> error_message, slurm_node_spec |-> node_spec],
                  publish_suspend_error_events(error_message, node_spec),
                  behaviour, clock)

PublishInsufficientCapacityEvents ==
    /\ pc = "idle"
    /\ \E ice_map \in IceMaps, behaviour \in SinkBehaviours :
           Invoke("publish_insufficient_capacity_events",
                  [ice_compute_resources_and_nodes_map |-> ice_map],
                  publish_insufficient_capacity_events(ice_map, clock),
                  behaviour, clock)

\* the caller carries on after the call
Return ==
    /\ pc = "done"
    /\ pc' = "idle"
    /\ method' = "none"
    /\ args' = NoArgs
    /\ sink' = NoSink
    /\ entered_at' = 0
    /\ calls' = <<>>
    /\ outcome' = "none"
    /\ logged' = <<>>
    /\ earlier' = IF sink.raises_at \in DOMAIN calls THEN "cut_short"
                  ELSE "completed"
    /\ UNCHANGED <<LAUNCH_FAILURE_GROUPING, heap, suspend_main, clock, parserVars, result>>

\* time passes between calls
Tick ==
    /\ pc = "idle"
    /\ clock < MaxClock
    /\ clock' = clock + 1
    /\ UNCHANGED <<LAUNCH_FAILURE_GROUPING, earlier, heap, suspend_main, pc, method, args, sink, entered_at,
                   calls, outcome, logged, parserVars, result>>

Next ==
    \/ PublishClusterNodeEvents
    \/ PublishPoweringDownNodeEvents
    \/ PublishUnhealthyDynamicNodeEvents
    \/ PublishUnhealthyStaticNodeEvents
    \/ PublishOrphanedInstanceEvents
    \/ PublishEnteringProtectedModeEvents
    \/ PublishNodesFailingHealthCheckEvents
    \/ PublishFailedHealthCheckNodesInReplacement
    \/ PublishHandlePoweringDownNodesEvents
    \/ PublishAddInstanceForNodesSuccessEvents
    \/ PublishAddInstanceForNodesFailureEvents
    \/ PublishNodeLaunchEvents
    \/ PublishSuspendEvents
    \/ PublishSuspendErrorEvents
    \/ PublishInsufficientCapacityEvents
    \/ Return
    \/ Tick

Spec == Init /\ [][Next]_vars

-----------------------------------------------------------------------------
(* The parser under a consumer: SpecExpand.                                *)

InitExpand ==
    /\ LAUNCH_FAILURE_GROUPING = ImportedGrouping
    /\ clock = 0
    /\ PublisherIdle
    /\ earlier = "none"
    /\ heap = NoHeap
    /\ suspend_main = NoMain
    /\ slurm_node_spec \in NodeSpecs
    /\ gen = NewGenerator(slurm_node_spec)
    /\ received = <<>>
    /\ result = NoResult

\* the consumer asks the generator for its next name (a for loop's step)
ExpandNext ==
    /\ gen.at \notin {"finished", "raised"}
    /\ LET r == GeneratorNext(gen)
       IN  /\ gen' = r.g
           /\ received' = IF r.out = "yield" THEN Append(received, r.val) ELSE received
    /\ UNCHANGED <<slurm_node_spec, LAUNCH_FAILURE_GROUPING, earlier, heap, suspend_main, publisherVars, result>>

\* the consumer materializes the generator: list(_expand_slurm_node_spec(spec))
ExpandAll ==
    /\ gen.at = "created"
    /\ LET m == ExpandList(slurm_node_spec)
       IN  /\ gen' = m.g
           /\ received' = m.names
    /\ UNCHANGED <<slurm_node_spec, LAUNCH_FAILURE_GROUPING, earlier, heap, suspend_main, publisherVars, result>>

NextExpand == ExpandNext \/ ExpandAll

SpecExpand == InitExpand /\ [][NextExpand]_vars

-----------------------------------------------------------------------------
(* The taxonomy applied to an input: SpecTaxonomy.                         *)

NoSpec == <<>>

InitTaxonomy ==
    /\ LAUNCH_FAILURE_GROUPING = ImportedGrouping
    /\ clock = 0
    /\ PublisherIdle
    /\ earlier = "none"
    /\ heap = NoHeap
    /\ suspend_main = NoMain
    /\ slurm_node_spec = NoSpec
    /\ gen = Dead(NewGenerator(NoSpec), "finished")
    /\ received = <<>>
    /\ result = NoResult

\* a caller classifies one error code
ClassifyErrorCode ==
    /\ result = NoResult
    /\ \E error_code \in ErrorCodes :
          result' = [op |-> "_get_failure_type_from_error_code",
                     input |-> error_code,
                     output |-> _get_failure_type_from_error_code(error_code)]
    /\ UNCHANGED <<LAUNCH_FAILURE_GROUPING, earlier, heap, suspend_main, publisherVars, parserVars>>

\* a consumer iterates the roll-up of one failed-nodes map
BuildLaunchFailureDetails ==
    /\ result = NoResult
    /\ \E failed_nodes \in FailedNodeMaps :
          result' = [op |-> "_get_launch_failure_details",
                     input |-> failed_nodes,
                     output |-> _get_launch_failure_details(failed_nodes)]
    /\ UNCHANGED <<LAUNCH_FAILURE_GROUPING, earlier, heap, suspend_main, publisherVars, parserVars>>

\* the caller drops the result
DropResult ==
    /\ result # NoResult
    /\ result' = NoResult
    /\ UNCHANGED <<LAUNCH_FAILURE_GROUPING, earlier, heap, suspend_main, publisherVars, parserVars>>

NextTaxonomy == ClassifyErrorCode \/ BuildLaunchFailureDetails \/ DropResult

SpecTaxonomy == InitTaxonomy /\ [][NextTaxonomy]_vars

-----------------------------------------------------------------------------
(* The idle-time summary applied to a list of nodes: SpecIdle.             *)

\* a node of either class, idle for some time, with or without an instance
IdleNode(name, dynamic, idle_time) ==
    [name |-> name, dynamic |-> dynamic,
     canonical_state_string |-> "IDLE+CLOUD", idle_time |-> idle_time,
     queue_name |-> "q1", compute_resource_name |-> "c5",
     instance |-> IF name = "n1" THEN Instance1 ELSE None,
     error_code |-> NoneStr, reason |-> NoneStr]

IdleNodeNames == {"n1", "n2"}

IdleNodes ==
    { IdleNode(name, dynamic, idle_time) :
          name \in IdleNodeNames, dynamic \in BOOLEAN, idle_time \in 0..MaxIdleTime }

IdleNodeLists == UNION {[1..k -> IdleNodes] : k \in 0..MaxIdleNodes}

InitIdle ==
    /\ LAUNCH_FAILURE_GROUPING = ImportedGrouping
    /\ clock = 0
    /\ PublisherIdle
    /\ earlier = "none"
    /\ heap = NoHeap
    /\ suspend_main = NoMain
    /\ slurm_node_spec = NoSpec
    /\ gen = Dead(NewGenerator(NoSpec), "finished")
    /\ received = <<>>
    /\ result = NoResult

\* a consumer iterates the idle-time summary of one list of nodes
SummarizeIdleTimes ==
    /\ result = NoResult
    /\ \E nodes \in IdleNodeLists :
          result' = [op |-> "_get_max_idle_times",
                     input |-> nodes,
                     output |-> _get_max_idle_times(nodes)]
    /\ UNCHANGED <<LAUNCH_FAILURE_GROUPING, earlier, heap, suspend_main, publisherVars, parserVars>>

NextIdle == SummarizeIdleTimes \/ DropResult

SpecIdle == InitIdle /\ [][NextIdle]_vars

(***************************************************************************)
(* suspend.main: the suspend entry point                                   *)
(***************************************************************************)

\* the name main makes its notification calls on: event_publisher, the sink
\* factory imported from slurm_plugin.common, and not _event_publisher, the
\* ClusterEventPublisher main has just built from it
Receiver == "event_publisher"

\* whether the object a name is bound to has the publisher's method m: the
\* ClusterEventPublisher has, the imported factory function has not
HasMethod(receiver, m) == receiver = "_event_publisher"

InitSuspend ==
    /\ LAUNCH_FAILURE_GROUPING = ImportedGrouping
    /\ clock = 0
    /\ PublisherIdle
    /\ earlier = "none"
    /\ heap = NoHeap
    /\ \E nodes \in SuspendNodeSpecs :
          suspend_main = [at |-> "startup", nodes |-> nodes,
                          heartbeat |-> "unchecked", outcome |-> "running"]
    /\ slurm_node_spec = NoSpec
    /\ gen = Dead(NewGenerator(NoSpec), "finished")
    /\ received = <<>>
    /\ result = NoResult

\* main reads its configuration and rebinds _event_publisher to a publisher
\* over the sink the factory returns; an unreadable file ends main
Configure ==
    /\ suspend_main.at = "startup"
    /\ \/ /\ suspend_main' = [suspend_main EXCEPT !.at = "exited",
                                                  !.outcome = "raised"]
          /\ UNCHANGED sink
       \/ \E behaviour \in SinkBehaviours :
             /\ sink' = behaviour
             /\ suspend_main' = [suspend_main EXCEPT !.at = "heartbeat"]
    /\ UNCHANGED <<LAUNCH_FAILURE_GROUPING, earlier, heap, clock, pc, method, args,
                   entered_at, calls, outcome, logged, parserVars, result>>

\* main asks whether clustermgtd's heartbeat is valid
CheckHeartbeat ==
    /\ suspend_main.at = "heartbeat"
    /\ \E valid \in BOOLEAN :
          suspend_main' = [suspend_main EXCEPT
                              !.at = "notify",
                              !.heartbeat = IF valid THEN "valid" ELSE "invalid"]
    /\ UNCHANGED <<LAUNCH_FAILURE_GROUPING, earlier, heap, publisherVars, parserVars, result>>

\* main calls method m on Receiver and ends: with the method's outcome when
\* Receiver has the method, with the AttributeError of the lookup otherwise
Notify(m, a, plan) ==
    /\ IF HasMethod(Receiver, m)
       THEN /\ Call(m, a, plan, sink, clock)
            /\ suspend_main' = [suspend_main EXCEPT
                                   !.at = "exited",
                                   !.outcome = IF outcome' = "raised"
                                               THEN "raised" ELSE "returned"]
       ELSE /\ suspend_main' = [suspend_main EXCEPT !.at = "exited",
                                                    !.outcome = "raised"]
            /\ UNCHANGED publisherVars
    /\ UNCHANGED <<LAUNCH_FAILURE_GROUPING, earlier, heap, parserVars, result>>

\* the heartbeat is not valid: main reports the error
NotifySuspendError ==
    /\ suspend_main.at = "notify"
    /\ suspend_main.heartbeat = "invalid"
    /\ \E error_message \in ErrorMessages :
          Notify("publish_suspend_error_events",
                 [error_message |-> error_message,
                  slurm_node_spec |-> suspend_main.nodes],
                 publish_suspend_error_events(error_message, suspend_main.nodes))

\* the heartbeat is valid: main reports the suspension
NotifySuspend ==
    /\ suspend_main.at = "notify"
    /\ suspend_main.heartbeat = "valid"
    /\ Notify("publish_suspend_events",
              [slurm_node_spec |-> suspend_main.nodes],
              publish_suspend_events(suspend_main.nodes))

NextSuspend == Configure \/ CheckHeartbeat \/ NotifySuspendError \/ NotifySuspend

SpecSuspend == InitSuspend /\ [][NextSuspend]_vars

(***************************************************************************)
(* The roll-up over the caller's objects: the failed-nodes dict and its    *)
(* node-name lists have an identity, and the caller may write to them      *)
(***************************************************************************)

\* the heap of a caller that holds one failed-nodes map: its lists, then the
\* dict that refers to them
CallerHeap(failed_nodes) ==
    [i \in 1..Len(failed_nodes) |-> [list |-> failed_nodes[i].nodes]]
    \o <<[dict |-> [i \in 1..Len(failed_nodes) |->
                       [key |-> failed_nodes[i].error_code, ref |-> i]]]>>

\* the address of the caller's dict, and the addresses of the caller's objects
CallerDict(h) == CHOOSE a \in DOMAIN h : "dict" \in DOMAIN h[a]

CallerObjects(h) == 1..CallerDict(h)

\* the failed-nodes map a dict of the heap holds now
Deref(h, a) ==
    [i \in DOMAIN h[a].dict |->
        Entry(h[a].dict[i].key, h[h[a].dict[i].ref].list)]

\* an embedded list that is the caller's own list
AliasOf(h, a) == [heap |-> h, ref |-> a]

\* line 706, list(nodes): a new list with the items of the list at a
ListOf(h, a) == [heap |-> Append(h, [list |-> h[a].list]), ref |-> Len(h) + 1]

\* line 706 for the entries from number i on: the heap with the lists made,
\* and the address of the list made for each entry
RECURSIVE ListsOf(_, _, _)
ListsOf(h, entries, i) ==
    IF i > Len(entries) THEN [heap |-> h, refs |-> <<>>]
    ELSE LET made == ListOf(h, entries[i].ref)
             rest == ListsOf(made.heap, entries, i + 1)
         IN  [heap |-> rest.heap, refs |-> <<made.ref>> \o rest.refs]

\* lines 695-712 over the heap, iterated to the end: the payload, in which a
\* node list is the address of the list line 706 made, and the heap after;
\* a roll-up that raises leaves nothing behind
IterateLaunchFailureDetails(h, a) ==
    LET failed_nodes == Deref(h, a)
        built == _get_launch_failure_details(failed_nodes)
        lists == ListsOf(h, h[a].dict, 1)
        RefOf(error_code) ==
            lists.refs[CHOOSE i \in DOMAIN failed_nodes :
                           failed_nodes[i].error_code = error_code]
        Placed(bucket) ==
            [k \in DOMAIN bucket |->
                IF IsIntValue(bucket[k]) THEN bucket[k]
                ELSE [ref |-> RefOf(k)]]
    IN  IF built.ok
        THEN [heap |-> lists.heap,
              output |-> [ok |-> TRUE,
                          items |-> <<[f \in DOMAIN built.items[1] |->
                                         IF f = "total" THEN built.items[1][f]
                                         ELSE Placed(built.items[1][f])]>>]]
        ELSE [heap |-> h, output |-> built]

\* failed-nodes maps a caller holds
HeapFailedNodeMaps ==
    SampleFailedNodeMaps \cup FailedNodeMapsUpTo(1) \cup
    { <<Entry("InsufficientHostCapacity", <<"q1-st-c5-1">>),
        Entry("count", <<>>)>> }

InitHeap ==
    /\ LAUNCH_FAILURE_GROUPING = ImportedGrouping
    /\ clock = 0
    /\ PublisherIdle
    /\ earlier = "none"
    /\ suspend_main = NoMain
    /\ \E failed_nodes \in HeapFailedNodeMaps : heap = CallerHeap(failed_nodes)
    /\ slurm_node_spec = NoSpec
    /\ gen = Dead(NewGenerator(NoSpec), "finished")
    /\ received = <<>>
    /\ result = NoResult

\* how many roll-ups were built so far
RollUps == IF result = NoResult THEN 0 ELSE result.rollups

\* a consumer iterates the roll-up of the caller's failed-nodes map
BuildRollUp ==
    /\ RollUps < MaxRollUps
    /\ LET input == CallerDict(heap)
           built == IterateLaunchFailureDetails(heap, input)
       IN  /\ heap' = built.heap
           /\ result' = [op |-> "iterate_launch_failure_details",
                         input |-> input,
                         snapshot |-> Deref(heap, input),
                         output |-> built.output,
                         rollups |-> RollUps + 1,
                         written |-> FALSE]
    /\ UNCHANGED <<LAUNCH_FAILURE_GROUPING, earlier, suspend_main, publisherVars,
                   parserVars>>

\* the caller appends a name to one of its own lists after a roll-up
CallerAppends ==
    /\ result # NoResult
    /\ ~result.written
    /\ \E a \in CallerObjects(heap), name \in FailedNodeNames :
          /\ "list" \in DOMAIN heap[a]
          /\ heap' = [heap EXCEPT ![a] = [list |-> Append(heap[a].list, name)]]
    /\ result' = [result EXCEPT !.written = TRUE]
    /\ UNCHANGED <<LAUNCH_FAILURE_GROUPING, earlier, suspend_main, publisherVars,
                   parserVars>>

NextHeap == BuildRollUp \/ CallerAppends

SpecHeap == InitHeap /\ [][NextHeap]_vars

FailureTypes ==
    { "ice-failures", "vcpu-limit-failures", "volume-limit-failures",
      "custom-ami-errors", "iam-policy-errors", "other-failures" }

(* C8: for every failed-nodes map with N node names in total, the roll-up  *)
(* payload is built, its total is N, the counts of its six category        *)
(* entries sum to N, and all six category keys are present.                *)
RollupCountsAddUp ==
    result.op = "_get_launch_failure_details" =>
        /\ result.output.ok
        /\ LET detail == result.output.items[1]
               N == TotalNames(result.input)
               RECURSIVE SumCounts(_)
               SumCounts(fs) ==
                   IF fs = {} THEN 0
                   ELSE LET f == CHOOSE f \in fs : TRUE
                        IN  detail[f]["count"].int + SumCounts(fs \ {f})
           IN  /\ FailureTypes \subseteq DOMAIN detail
               /\ detail["total"] = IntValue(N)
               /\ \A f \in FailureTypes : IsIntValue(detail[f]["count"])
               /\ SumCounts(FailureTypes) = N

\* the table the specification states, code by code
StatedFailureType(error_code) ==
    CASE error_code \in { "InsufficientInstanceCapacity", "InsufficientHostCapacity",
                          "InsufficientReservedInstanceCapacity",
                          "MaxSpotInstanceCountExceeded", "Unsupported",
                          "SpotMaxPriceTooLow" } -> "ice-failures"
      [] error_code = "VcpuLimitExceeded" -> "vcpu-limit-failures"
      [] error_code \in {"VolumeLimitExceeded", "InsufficientVolumeCapacity"} ->
             "volume-limit-failures"
      [] error_code = "InvalidBlockDeviceMapping" -> "custom-ami-errors"
      [] error_code \in {"UnauthorizedOperation", "AccessDeniedException"} ->
             "iam-policy-errors"
      [] OTHER -> "other-failures"

(* C9: every error code classifies to exactly one of the six categories:   *)
(* the six ICE codes to ice-failures, the listed vcpu, volume, custom-ami  *)
(* and iam codes to their category, every other code to other-failures;    *)
(* and every category is the class of some code.                           *)
ClassifyIsTotalOntoCategories ==
    /\ result.op = "_get_failure_type_from_error_code" =>
           /\ result.output \in FailureTypes
           /\ result.output = StatedFailureType(result.input)
    /\ \A f \in FailureTypes :
           \E c \in ErrorCodes : _get_failure_type_from_error_code(c) = f

\* a code absent from the table was classified, to other-failures
ClassifyIsTotalOntoCategoriesWitness ==
    /\ result.op = "_get_failure_type_from_error_code"
    /\ result.input = "SporksAreNeitherForksNorSpoons"
    /\ result.output = "other-failures"

-----------------------------------------------------------------------------
(* The hostlist notation, stated from its grammar:                         *)
(*   spec := element (',' element)*      element := plain | bracketed      *)
(*   plain := name        bracketed := name '[' range (',' range)* ']'     *)
(*   range := NUMBER | NUMBER '-' NUMBER (ascending)                       *)

Metacharacters == {"[", "]", ","}

IsNodeName(x) == x # <<>> /\ \A i \in 1..Len(x) : x[i] \notin Metacharacters

IsNumber(x) == x # <<>> /\ \A i \in 1..Len(x) : x[i] \in Digits

IsAscendingRange(t) ==
    LET parts == ReSplit(t, "-")
    IN  \/ Len(parts) = 1 /\ IsNumber(parts[1])
        \/ /\ Len(parts) = 2
           /\ IsNumber(parts[1])
           /\ IsNumber(parts[2])
           /\ IntOf(parts[1]) <= IntOf(parts[2])

\* the numbers a range denotes, ascending
RangeNumbers(t) ==
    LET parts == ReSplit(t, "-")
        lo == IntOf(parts[1])
        hi == IntOf(parts[Len(parts)])
    IN  [k \in 1..(hi - lo + 1) |-> lo + k - 1]

IsBracketed(e) ==
    /\ Len(e) >= 4
    /\ e[Len(e)] = "]"
    /\ \E p \in 2..(Len(e) - 2) :
          /\ e[p] = "["
          /\ IsNodeName(SubSeq(e, 1, p - 1))
          /\ LET body == SubSeq(e, p + 1, Len(e) - 1)
                 ranges == ReSplit(body, ",")
             IN  /\ \A i \in 1..Len(body) : body[i] \notin {"[", "]"}
                 /\ \A i \in 1..Len(ranges) : IsAscendingRange(ranges[i])

IsElement(e) == IsNodeName(e) \/ IsBracketed(e)

\* the names one element denotes, in order
ElementNames(e) ==
    IF IsNodeName(e) THEN <<e>>
    ELSE LET p == FirstPos(e, {"["})
             base == SubSeq(e, 1, p - 1)
             ranges == ReSplit(SubSeq(e, p + 1, Len(e) - 1), ",")
         IN  Flatten([i \in 1..Len(ranges) |->
                         [k \in 1..Len(RangeNumbers(ranges[i])) |->
                             base \o FormatInt(RangeNumbers(ranges[i])[k])]])

RECURSIVE IsWellFormedSpec(_)
IsWellFormedSpec(s) ==
    \/ IsElement(s)
    \/ \E k \in 2..(Len(s) - 1) :
          /\ s[k] = ","
          /\ IsElement(SubSeq(s, 1, k - 1))
          /\ IsWellFormedSpec(SubSeq(s, k + 1, Len(s)))

\* the names a well-formed spec denotes, element by element
RECURSIVE SpecNames(_)
SpecNames(s) ==
    IF IsElement(s) THEN ElementNames(s)
    ELSE LET k == CHOOSE k \in 2..(Len(s) - 1) :
                     /\ s[k] = ","
                     /\ IsElement(SubSeq(s, 1, k - 1))
                     /\ IsWellFormedSpec(SubSeq(s, k + 1, Len(s)))
         IN  ElementNames(SubSeq(s, 1, k - 1)) \o SpecNames(SubSeq(s, k + 1, Len(s)))

\* the iteration is over: the generator returned or raised
ExpandEnded == gen.at \in {"finished", "raised"}

Stripped == StripWhitespace(slurm_node_spec)

(* C4: for every well-formed node spec the expansion ends normally having  *)
(* yielded exactly the names its elements denote, elements left to right   *)
(* and each range ascending; the empty spec yields nothing.                *)
ExpandYieldsDenotedNames ==
    ExpandEnded =>
        /\ Stripped = <<>> => gen.at = "finished" /\ received = <<>>
        /\ IsWellFormedSpec(Stripped) =>
               gen.at = "finished" /\ received = SpecNames(Stripped)

\* a well-formed spec mixing a plain element and a bracketed one with a
\* proper range was expanded to the end
ExpandYieldsDenotedNamesWitness ==
    /\ gen.at = "finished"
    /\ IsWellFormedSpec(Stripped)
    /\ \E k \in 2..(Len(Stripped) - 1) :
          /\ Stripped[k] = ","
          /\ IsNodeName(SubSeq(Stripped, 1, k - 1))
          /\ IsBracketed(SubSeq(Stripped, k + 1, Len(Stripped)))
    /\ Len(received) >= 4

-----------------------------------------------------------------------------
(* Defects of a node spec, each stated on the string itself.               *)

\* position p lies inside a bracket: a '[' before it is not yet closed
InsideBracket(s, p) ==
    \E o \in 1..(p - 1) :
        s[o] = "[" /\ \A j \in (o + 1)..(p - 1) : s[j] # "]"

\* the bodies of the brackets of s: from a '[' outside any bracket to the
\* first ']' after it
BracketBodies(s) ==
    { SubSeq(s, o + 1, c - 1) :
        <<o, c>> \in { oc \in (1..Len(s)) \X (1..Len(s)) :
                         /\ oc[1] < oc[2]
                         /\ s[oc[1]] = "["
                         /\ ~InsideBracket(s, oc[1])
                         /\ s[oc[2]] = "]"
                         /\ \A j \in (oc[1] + 1)..(oc[2] - 1) : s[j] # "]" } }

RangeTokens(s) ==
    UNION { {ReSplit(b, ",")[i] : i \in 1..Len(ReSplit(b, ","))} : b \in BracketBodies(s) }

\* an empty name before a ',' or a '[': at the start, or right after a ','
\* that separates elements
HasEmptyName(s) ==
    \E p \in 1..Len(s) :
        /\ s[p] \in {",", "["}
        /\ ~InsideBracket(s, p)
        /\ \/ p = 1
           \/ s[p - 1] = "," /\ ~InsideBracket(s, p - 1)

HasUnmatchedBracket(s) ==
    \E o \in 1..Len(s) : s[o] = "[" /\ \A j \in (o + 1)..Len(s) : s[j] # "]"

HasLongToken(s) == \E t \in RangeTokens(s) : Len(ReSplit(t, "-")) > 2

HasDescendingRange(s) ==
    \E t \in RangeTokens(s) :
        LET parts == ReSplit(t, "-")
        IN  /\ Len(parts) = 2
            /\ IsNumber(parts[1])
            /\ IsNumber(parts[2])
            /\ IntOf(parts[1]) > IntOf(parts[2])

HasNonIntegerPart(s) ==
    \E t \in RangeTokens(s) :
        LET parts == ReSplit(t, "-")
        IN  \E i \in 1..Len(parts) : ~IsNumber(parts[i])

HasListedDefect(s) ==
    \/ HasEmptyName(s)
    \/ HasUnmatchedBracket(s)
    \/ HasLongToken(s)
    \/ HasDescendingRange(s)
    \/ HasNonIntegerPart(s)

(* C5: materializing the expansion of a spec with an empty name before a   *)
(* ',' or '[', an unmatched '[', a range token of more than two parts, a   *)
(* descending range or a non-integer range part ends with a raised         *)
(* failure, never normally.                                                *)
ExpandRaisesOnDefect ==
    ExpandEnded /\ HasListedDefect(Stripped) => gen.at = "raised"

\* a descending range that follows a valid range was reached and rejected
ExpandRaisesOnDefectWitness ==
    /\ gen.at = "raised"
    /\ HasDescendingRange(Stripped)
    /\ ~HasEmptyName(Stripped)
    /\ ~HasUnmatchedBracket(Stripped)
    /\ ~HasLongToken(Stripped)
    /\ ~HasNonIntegerPart(Stripped)
    /\ received # <<>>

\* a closing ']' directly followed by a character other than ','
HasFragmentAfterBracket(s) ==
    \E c \in 1..(Len(s) - 1) :
        /\ s[c] = "]"
        /\ InsideBracket(s, c)
        /\ s[c + 1] # ","

(* C6: a spec in which a closing ']' is directly followed by a character   *)
(* other than ',' raises instead of yielding the trailing fragment.        *)
ExpandRaisesOnFragmentAfterBracket ==
    ExpandEnded /\ HasFragmentAfterBracket(Stripped) => gen.at = "raised"

(* C7: on a malformed spec the consumer has received no node name when     *)
(* the parse failure is raised.                                            *)
ExpandFailsAsAWhole ==
    gen.at = "raised" => received = <<>>

-----------------------------------------------------------------------------
(* The publisher's contract towards its callers and its sink.              *)

Invoked == pc = "done"

(* C1: every public publish_* method returns normally to its caller, for   *)
(* every input and every sink behaviour, a sink that raises included, and  *)
(* empty input collections included.                                       *)
PublishNeverRaises ==
    Invoked => outcome = "returned"

\* the sink raised on the first call of a method handed non-empty input; the
\* failure was logged and the method returned
PublishNeverRaisesWitness ==
    /\ Invoked
    /\ method = "publish_cluster_node_events"
    /\ args.cluster_nodes # <<>>
    /\ sink.raises_at = 1
    /\ Len(calls) = 1
    /\ calls[1].raised
    /\ logged = <<"publish_cluster_node_events">>
    /\ outcome = "returned"

SinkLevels == {"DEBUG", "INFO", "WARNING", "ERROR"}

(* C2: in every call a publish_* method makes into the sink, the level is  *)
(* one of DEBUG, INFO, WARNING, ERROR, for every input, empty collections  *)
(* included.                                                               *)
SinkLevelsAreKnown ==
    \A i \in 1..Len(calls) : calls[i].level \in SinkLevels

(* C3: every sink call of one invocation carries a timestamp, and all the  *)
(* calls of the invocation carry the same one, read when the method was    *)
(* entered.                                                                *)
CallsShareEntryTimestamp ==
    \A i \in 1..Len(calls) :
        /\ "timestamp" \in calls[i].kwargs
        /\ calls[i].timestamp = calls[1].timestamp
        /\ calls[i].timestamp >= entered_at

\* the detail events delivered to the sink that carry a failure-type
ClassifiedDetails ==
    { item \in UNION { {calls[i].delivered[j] : j \in 1..Len(calls[i].delivered)} :
                       i \in 1..Len(calls) } :
          "failure_type" \in DOMAIN item }

\* the failed-nodes map lists the node of the item under the item's error code
ListedUnder(failed_nodes, item) ==
    \E k \in 1..Len(failed_nodes) :
        /\ failed_nodes[k].error_code = item.error_code
        /\ In(item.node.name, failed_nodes[k].nodes)

-----------------------------------------------------------------------------
(* The idle-time summary.                                                  *)

Summarized == result.op = "_get_max_idle_times"

\* the positions in the summarized list of the idle nodes of a class
IdleOfClass(dynamic) ==
    { i \in 1..Len(result.input) :
          result.input[i].dynamic = dynamic /\ result.input[i].idle_time > 0 }

\* the summary reported for a class
ClassSummary(dynamic) ==
    IF dynamic THEN result.output.items[1].dynamic
    ELSE result.output.items[1].static

ZeroSummary == [idle_time |-> 0, idle_count |-> 0]

(* C11: per class, the summary is the zero summary when no node of the     *)
(* class has idle time > 0; otherwise idle-time is the maximum idle time   *)
(* of the class, most-idle-node identifies a node of the class with that   *)
(* idle time, and idle-count is the number of nodes of the class with      *)
(* strictly positive idle time.                                            *)
IdleSummaryPerClass ==
    Summarized =>
        /\ result.output.ok
        /\ Len(result.output.items) = 1
        /\ \A dynamic \in BOOLEAN :
               LET idle == IdleOfClass(dynamic)
                   summary == ClassSummary(dynamic)
               IN  IF idle = {} THEN summary = ZeroSummary
                   ELSE /\ \A i \in idle : result.input[i].idle_time <= summary.idle_time
                        /\ summary.idle_count = Cardinality(idle)
                        /\ \E i \in idle :
                               /\ result.input[i].idle_time = summary.idle_time
                               /\ summary.most_idle_node.name = result.input[i].name
                               /\ summary.most_idle_node.partition =
                                      result.input[i].queue_name
                               /\ summary.most_idle_node.resource =
                                      result.input[i].compute_resource_name
                               /\ summary.most_idle_node.instance_id =
                                      IF result.input[i].instance = None THEN NoneStr
                                      ELSE result.input[i].instance.id

\* idle times 1, 2, 1 of three static nodes among which none is dynamic: the
\* static summary names the node idle for 2 and counts 3, the dynamic one is zero
IdleSummaryPerClassWitness ==
    /\ Summarized
    /\ Len(result.input) = 3
    /\ \A i \in 1..3 : ~result.input[i].dynamic
    /\ result.input[1].idle_time = 1
    /\ result.input[2].idle_time = 2
    /\ result.input[3].idle_time = 1
    /\ ClassSummary(FALSE).idle_time = 2
    /\ ClassSummary(FALSE).idle_count = 3
    /\ ClassSummary(TRUE) = ZeroSummary

\* the positions of the nodes of a class that share its maximum idle time
MostIdleOfClass(dynamic) ==
    { i \in IdleOfClass(dynamic) :
          \A j \in IdleOfClass(dynamic) :
              result.input[j].idle_time <= result.input[i].idle_time }

Lowest(positions) == CHOOSE i \in positions : \A j \in positions : i <= j

(* C12: when several nodes of a class share the maximum idle time, the     *)
(* most-idle-node reported is the first of them in the order of the input. *)
FirstMostIdleNodeWins ==
    Summarized =>
        \A dynamic \in BOOLEAN :
            MostIdleOfClass(dynamic) # {} =>
                ClassSummary(dynamic).most_idle_node.name =
                    result.input[Lowest(MostIdleOfClass(dynamic))].name

\* two differently named dynamic nodes share the maximum, after a less idle one
FirstMostIdleNodeWinsWitness ==
    /\ Summarized
    /\ Len(result.input) = 3
    /\ \A i \in 1..3 : result.input[i].dynamic
    /\ result.input[1].idle_time = 1
    /\ result.input[2].idle_time = 2
    /\ result.input[3].idle_time = 2
    /\ result.input[2].name = "n2"
    /\ result.input[3].name = "n1"
    /\ ClassSummary(TRUE).most_idle_node.name = "n2"


(***************************************************************************)
(* C13: every run of suspend.main that reaches the heartbeat check ends    *)
(* having emitted exactly one event through the publisher: suspend-node    *)
(* when the heartbeat is valid, suspend-error when it is not.              *)
(***************************************************************************)
HeartbeatChecked == suspend_main.heartbeat # "unchecked"

SuspendMainEmitsOneEvent ==
    (suspend_main.at = "exited" /\ HeartbeatChecked) =>
        /\ Len(calls) = 1
        /\ calls[1].event_type = IF suspend_main.heartbeat = "valid"
                                 THEN "suspend-node" ELSE "suspend-error"

(***************************************************************************)
(* C14: a failure to parse the node spec handed to publish_suspend_events  *)
(* or publish_suspend_error_events reaches the caller: the call ends with  *)
(* a raised failure and does not return normally.                          *)
(***************************************************************************)
SuspendMethods == {"publish_suspend_events", "publish_suspend_error_events"}

\* the sink iterated the supplier of a suspend call and the parse failed
SuspendParseFailed ==
    /\ Invoked
    /\ method \in SuspendMethods
    /\ ~ExpandList(args.slurm_node_spec).ok
    /\ Len(calls) = 1
    /\ calls[1].raised
    /\ sink.raises_at # 1

SuspendParseFailureIsSurfaced == SuspendParseFailed => outcome = "raised"

(***************************************************************************)
(* C15: every call a publish_* method makes into the sink passes exactly   *)
(* one of the two payload forms, detail or event_supplier: never both and  *)
(* never neither.                                                          *)
(***************************************************************************)
PassesDetail(call) == "detail" \in call.kwargs

PassesSupplier(call) == "event_supplier" \in call.kwargs

ExactlyOnePayloadForm ==
    Invoked => \A i \in DOMAIN calls :
                   PassesDetail(calls[i]) # PassesSupplier(calls[i])

\* one invocation made a call of each form
ExactlyOnePayloadFormWitness ==
    /\ Invoked
    /\ \E i \in DOMAIN calls : PassesDetail(calls[i])
    /\ \E i \in DOMAIN calls : PassesSupplier(calls[i])

(***************************************************************************)
(* C16: a count event has level WARNING when the collection it counts is   *)
(* not empty, and level DEBUG or INFO when it is empty.                    *)
(***************************************************************************)
\* the count events that carry their count in the call itself
IsCountCall(call) ==
    /\ PassesDetail(call)
    /\ "count" \in DOMAIN call.delivered[1]

CountLevelFollowsCollection ==
    Invoked => \A i \in DOMAIN calls :
                   IsCountCall(calls[i]) =>
                       IF calls[i].delivered[1].count > 0
                       THEN calls[i].level = "WARNING"
                       ELSE calls[i].level \in {"DEBUG", "INFO"}

(***************************************************************************)
(* C17: within one invocation the count and summary events reach the sink  *)
(* before the per-entity detail events: no count or summary event is       *)
(* delivered after a detail event of the same invocation.                  *)
(***************************************************************************)
SummaryEventTypes ==
    { "node-state-count", "idle-node-time", "node-powering-down-count",
      "dynamic-node-health-check-failure-count",
      "dynamic-node-failure-instance-terminate-count",
      "dynamic-node-failure-power-down-count",
      "static-node-health-check-failure-count",
      "static-node-failure-instance-terminate-count",
      "successful-node-launch-count", "static-nodes-in-replacement-count",
      "node-launch-failure-count", "orphaned-instance-count",
      "cluster-entering-protected-mode", "node-failed-health-check-count",
      "rebooted-nodes-count", "static-node-replacement-failure-count",
      "node-powering-down-instance-count",
      "successful-node-launch-batch-count",
      "batch-node-launch-failure-count",
      "insufficient-capacity-error-count" }

\* call i delivered a payload of a count or summary event
DeliversSummary(i) ==
    calls[i].event_type \in SummaryEventTypes /\ calls[i].delivered # <<>>

\* call i delivered a payload of a per-entity detail event
DeliversEntityDetail(i) ==
    calls[i].event_type \notin SummaryEventTypes /\ calls[i].delivered # <<>>

\* for a sink that iterates each supplier on receipt, so that payloads are
\* delivered in the order of the calls
SummariesPrecedeDetails ==
    (Invoked /\ sink.consumes = "on_receipt") =>
        \A i, j \in DOMAIN calls :
            (DeliversEntityDetail(i) /\ DeliversSummary(j)) => j < i

(***************************************************************************)
(* C18: where a count event is paired with per-entity detail events        *)
(* (orphaned instances, powering-down instances, static nodes in           *)
(* replacement, static replacement failures), the number of detail events  *)
(* delivered equals the count the count event reports.                     *)
(***************************************************************************)
\* the detail event type paired with each count event type
PairedDetailType ==
    [ x \in { "orphaned-instance-count", "node-powering-down-instance-count",
              "static-nodes-in-replacement-count",
              "static-node-replacement-failure-count" } |->
        CASE x = "orphaned-instance-count" -> "terminating-orphaned-instance"
          [] x = "node-powering-down-instance-count" -> "node-powering-down-instance"
          [] x = "static-nodes-in-replacement-count" -> "static-node-in-replacement"
          [] x = "static-node-replacement-failure-count" ->
                 "static-node-replacement-health-check-failure" ]

\* for a sink that iterates each supplier on receipt and does not fail
DetailsMatchCount ==
    (Invoked /\ sink.consumes = "on_receipt" /\ logged = <<>>) =>
        \A i, j \in DOMAIN calls :
            ( /\ calls[i].event_type \in DOMAIN PairedDetailType
              /\ calls[j].event_type = PairedDetailType[calls[i].event_type] )
            => Len(calls[j].delivered) = calls[i].delivered[1].count

(***************************************************************************)
(* C19: publish_node_launch_events delivers to a sink that iterates each   *)
(* supplier on receipt, in this order: the successful-launch count, one    *)
(* successful-launch detail per (node, instance) pair, the launch-failure  *)
(* roll-up, then the launch-failure details.                               *)
(***************************************************************************)
\* the event type of every payload delivered, in the order of delivery
RECURSIVE DeliveredTypesFrom(_)
DeliveredTypesFrom(i) ==
    IF i > Len(calls) THEN <<>>
    ELSE [k \in 1..Len(calls[i].delivered) |-> calls[i].event_type]
         \o DeliveredTypesFrom(i + 1)

DeliveredTypes == DeliveredTypesFrom(1)

\* the place of each event type in the stated order
LaunchRank(event_type) ==
    CASE event_type = "successful-node-launch-count" -> 1
      [] event_type = "successful-node-launch" -> 2
      [] event_type = "node-launch-failure-count" -> 3
      [] event_type = "node-launch-failure" -> 4
      [] OTHER -> 0

NodeLaunchDelivered ==
    /\ Invoked
    /\ method = "publish_node_launch_events"
    /\ sink.consumes = "on_receipt"
    /\ logged = <<>>

LaunchSuccessesBeforeFailures ==
    NodeLaunchDelivered =>
        /\ \A i, j \in DOMAIN DeliveredTypes :
               i < j => /\ LaunchRank(DeliveredTypes[i]) > 0
                        /\ LaunchRank(DeliveredTypes[i]) <= LaunchRank(DeliveredTypes[j])
        /\ Cardinality({i \in DOMAIN DeliveredTypes :
                           DeliveredTypes[i] = "successful-node-launch"})
               = Len(args.successful_nodes)


(***************************************************************************)
(* C20: publish_cluster_node_events delivers, in order, one state-count    *)
(* payload per distinct canonical state string, in order of first          *)
(* occurrence, whose count is the number of input nodes in that state;     *)
(* then exactly one idle-time summary; then one node-info payload per node *)
(* in input order.                                                         *)
(***************************************************************************)
ClusterNodesDelivered ==
    /\ Invoked
    /\ method = "publish_cluster_node_events"
    /\ sink.consumes = "on_receipt"
    /\ logged = <<>>

\* the positions of the input nodes that are in a state
NodesInState(state) ==
    {n \in DOMAIN args.cluster_nodes :
        args.cluster_nodes[n].canonical_state_string = state}

ClusterNodeEventsInOrder ==
    ClusterNodesDelivered =>
        LET nodes == args.cluster_nodes
            counts == calls[1].delivered
            infos == calls[3].delivered
        IN  /\ [i \in DOMAIN calls |-> calls[i].event_type]
                   = <<"node-state-count", "idle-node-time", "node-info">>
            /\ \A n \in DOMAIN nodes : \E k \in DOMAIN counts :
                   counts[k].state = nodes[n].canonical_state_string
            /\ \A k \in DOMAIN counts :
                   /\ counts[k].count = Cardinality(NodesInState(counts[k].state))
                   /\ counts[k].count > 0
            /\ \A k, l \in DOMAIN counts :
                   k < l => /\ counts[k].state # counts[l].state
                            /\ Lowest(NodesInState(counts[k].state))
                                   < Lowest(NodesInState(counts[l].state))
            /\ Len(calls[2].delivered) = 1
            /\ Len(infos) = Len(nodes)
            /\ \A n \in DOMAIN nodes : infos[n].node.name = nodes[n].name

\* two different nodes in one state were counted together
ClusterNodeEventsInOrderWitness ==
    /\ ClusterNodesDelivered
    /\ Len(args.cluster_nodes) = 2
    /\ args.cluster_nodes[1].name # args.cluster_nodes[2].name
    /\ Len(calls[1].delivered) = 1
    /\ calls[1].delivered[1].count = 2

(***************************************************************************)
(* C23: in the roll-up payload every error code of the input map is a key  *)
(* holding exactly that code's node-name list, inside the bucket of its    *)
(* category and in no other bucket, and each bucket's count is the summed  *)
(* length of the node lists recorded in that bucket: for every error-code  *)
(* string.                                                                 *)
(***************************************************************************)
\* the summed length of the node lists of the input whose code has a type
NamesOfType(failed_nodes, failure_type) ==
    TotalNames(SelectSeq(failed_nodes,
        LAMBDA entry :
            _get_failure_type_from_error_code(entry.error_code) = failure_type))

RollupRecordsEveryCode ==
    result.op = "_get_launch_failure_details" =>
        /\ result.output.ok
        /\ LET detail == result.output.items[1]
               failed_nodes == result.input
           IN  /\ \A i \in DOMAIN failed_nodes, f \in FailureTypes :
                      LET error_code == failed_nodes[i].error_code
                      IN  IF f = _get_failure_type_from_error_code(error_code)
                          THEN /\ error_code \in DOMAIN detail[f]
                               /\ detail[f][error_code] =
                                      ListValue(failed_nodes[i].nodes)
                          ELSE error_code \notin DOMAIN detail[f] \ {"count"}
               /\ \A f \in FailureTypes :
                      detail[f]["count"] = IntValue(NamesOfType(failed_nodes, f))

(***************************************************************************)
(* C22: the number of calls a publish_* method makes into the sink equals  *)
(* the number of events emitted: one call for a detail event, and for an   *)
(* event_supplier one call per element it yields, none when it yields     *)
(* nothing.                                                                *)
(***************************************************************************)
\* for a sink that iterates each supplier on receipt and does not fail, so
\* that every element a supplier yields is delivered
OneSinkCallPerEvent ==
    (Invoked /\ sink.consumes = "on_receipt" /\ logged = <<>>) =>
        Len(calls) = Len(DeliveredTypes)

(***************************************************************************)
(* C25: when the body of a publish_* method raises, the scenario name its  *)
(* exception guard logs is the name of that method, for every public       *)
(* method.                                                                 *)
(***************************************************************************)
GuardLogsMethodName ==
    (Invoked /\ logged # <<>>) => logged = <<method>>

(***************************************************************************)
(* C26: in every count or summary payload that embeds a list of nodes or   *)
(* of instances, the count field equals the length of the embedded list,   *)
(* for all inputs.                                                         *)
(***************************************************************************)
\* the payloads delivered by the count and summary calls of the invocation
SummaryPayloads ==
    UNION { {calls[i].delivered[k] : k \in DOMAIN calls[i].delivered} :
                i \in {j \in DOMAIN calls :
                          calls[j].event_type \in SummaryEventTypes} }

CountIsLengthOfEmbeddedList ==
    Invoked => \A payload \in SummaryPayloads :
                   /\ {"count", "nodes"} \subseteq DOMAIN payload
                          => payload.count = Len(payload.nodes)
                   /\ {"count", "instances"} \subseteq DOMAIN payload
                          => payload.count = Len(payload.instances)

(***************************************************************************)
(* C28: in publish_unhealthy_static_node_events the supplier published for *)
(* the k-th entry of failed_nodes yields only events whose error code is   *)
(* that entry's key and whose node is named in that entry's list, whenever *)
(* the sink consumes it, on receipt or later.                              *)
(***************************************************************************)
\* the positions of the per-entry calls, the first of them included
LaunchFailureCalls ==
    {i \in DOMAIN calls : calls[i].event_type = "node-launch-failure"}

SupplierKeepsItsEntry ==
    (Invoked /\ method = "publish_unhealthy_static_node_events") =>
        \A i \in LaunchFailureCalls :
            LET k == i - Lowest(LaunchFailureCalls) + 1
                entry == args.failed_nodes[k]
            IN  \A e \in DOMAIN calls[i].delivered :
                    /\ calls[i].delivered[e].error_code = entry.error_code
                    /\ In(calls[i].delivered[e].node.name, entry.nodes)

(***************************************************************************)
(* C29: every name _expand_slurm_node_spec yields, for any input, is not   *)
(* empty and contains none of the metacharacters '[', ']' and ','.         *)
(***************************************************************************)
YieldedNamesArePlain ==
    \A i \in DOMAIN received :
        /\ received[i] # <<>>
        /\ \A c \in DOMAIN received[i] : received[i][c] \notin Metacharacters

(***************************************************************************)
(* C30: when publish_suspend_events or publish_suspend_error_events is     *)
(* given a node spec whose expansion fails, the sink is called exactly     *)
(* once, its event_supplier delivers no payload at all when iterated, and  *)
(* the method returns normally.                                            *)
(***************************************************************************)
SuspendWithMalformedSpec ==
    /\ Invoked
    /\ method \in SuspendMethods
    /\ ~ExpandList(args.slurm_node_spec).ok

SinkCallsOf(m, a) ==
    CASE m = "publish_cluster_node_events" -> 3
      [] m = "publish_powering_down_node_events" -> 2
      [] m = "publish_unhealthy_dynamic_node_events" -> 4
      [] m = "publish_unhealthy_static_node_events" -> 8 + Len(a.failed_nodes)
      [] m = "publish_orphaned_instance_events" -> 2
      [] m = "publish_entering_protected_mode_events" -> 2
      [] m = "publish_nodes_failing_health_check_events" -> 3
      [] m = "publish_failed_health_check_nodes_in_replacement" -> 2
      [] m = "publish_handle_powering_down_nodes_events" -> 2
      [] m = "publish_add_instance_for_nodes_success_events" -> 1
      [] m = "publish_add_instance_for_nodes_failure_events" -> 1
      [] m = "publish_node_launch_events" -> 4
      [] m = "publish_suspend_events" -> 1
      [] m = "publish_suspend_error_events" -> 1
      [] m = "publish_insufficient_capacity_events" -> 3

SinkFailureEndsInvocationOnly ==
    Invoked =>
        /\ \A i \in DOMAIN calls : calls[i].raised => i = Len(calls)
        /\ sink.raises_at \in 1..SinkCallsOf(method, args)
               => Len(calls) <= sink.raises_at
        /\ logged = <<>> => Len(calls) = SinkCallsOf(method, args)

\* the invocation before this one was cut short by its sink, and this one
\* made all of its calls, more than one
SinkFailureEndsInvocationOnlyWitness ==
    /\ Invoked
    /\ earlier = "cut_short"
    /\ logged = <<>>
    /\ Len(calls) = SinkCallsOf(method, args)
    /\ Len(calls) > 1

(***************************************************************************)
(* C21: building the roll-up leaves the caller's failed-nodes map and its  *)
(* node-name lists as they were, whether it succeeds or fails, and the     *)
(* node-name lists in the payload are copies: none is one of the caller's  *)
(* lists, and each keeps its names when the caller writes to its own.      *)
(***************************************************************************)
RolledUp == result.op = "iterate_launch_failure_details"

\* the addresses of the node lists embedded in the payload, with the error
\* code each is recorded under
EmbeddedLists ==
    IF RolledUp /\ result.output.ok
    THEN LET detail == result.output.items[1]
         IN  UNION { { [error_code |-> k, ref |-> detail[f][k].ref] :
                           k \in {x \in DOMAIN detail[f] :
                                     ~IsIntValue(detail[f][x])} } :
                       f \in DOMAIN detail \ {"total"} }
    ELSE {}

\* the node list the input held for an error code when the roll-up was built
SnapshotList(error_code) ==
    LET i == CHOOSE i \in DOMAIN result.snapshot :
                 result.snapshot[i].error_code = error_code
    IN  result.snapshot[i].nodes

RollUpIsBuiltFresh ==
    /\ LAUNCH_FAILURE_GROUPING = ImportedGrouping
    /\ (RolledUp /\ result.output.ok) =>
           LET detail == result.output.items[1]
           IN  /\ DOMAIN detail = FailureTypes \cup {"total"}
               /\ detail["total"] = IntValue(TotalNames(result.snapshot))
               /\ \A f \in FailureTypes :
                      /\ DOMAIN detail[f] \ {"count"} =
                             {result.snapshot[i].error_code :
                                 i \in {j \in DOMAIN result.snapshot :
                                    _get_failure_type_from_error_code(
                                        result.snapshot[j].error_code) = f}}
                                \ {"count"}
                      /\ IsIntValue(detail[f]["count"]) =>
                             detail[f]["count"] =
                                 IntValue(NamesOfType(result.snapshot, f))

\* a second roll-up of a map that has failed nodes
RollUpIsBuiltFreshWitness ==
    /\ RolledUp
    /\ result.output.ok
    /\ result.rollups > 1
    /\ TotalNames(result.snapshot) > 0
====
